---- MODULE Spec2Model ----
(***************************************************************************)
(* A model of the packing-slip PDF tooling: the page sorters (sorter.py,   *)
(* label_sorter.py), the sequence-marker anchored item extractor, the      *)
(* aggregator and process_pdf (aggregator.py), the location stamper and    *)
(* the size-anchored extractor (stamper.py), the pre-order marker          *)
(* (preorder_marker.py), the packing-slip run of main.py and gui.py, and   *)
(* the table editor (database_editor.py).  Each function has its own       *)
(* specification (SpecSort, SpecExtract, SpecWidget, SpecAgg, SpecStamp,   *)
(* SpecSummary, SpecMark, SpecItems, SpecMain, SpecEditor, SpecPages,     *)
(* SpecNoSku) over the shared variables below.                             *)
(*                                                                         *)
(* Text is modelled as the program sees it: a string is a sequence of      *)
(* one-character strings, a page's text is the sequence of its lines (what *)
(* text.split('\n') returns), and the regular expressions are evaluated    *)
(* character by character.  Python's 0-based indices are 1-based here.     *)
(***************************************************************************)
EXTENDS Naturals, Integers, Sequences, FiniteSets, TLC

VARIABLES
    pc,             \* control location of the running function
    mode,           \* which function runs: "slips", "labels", "extract", ...
    pdf,            \* the PDF file at pdf_path: [pages, rev]; rev counts replacements
    pdf0,           \* history: the file as it was when the call started
    tmp,            \* the temporary file on disk: [state, pages]
    temp_file,      \* the local temp_file: "None" or the temporary file's name
    temps,          \* history: number of temporary files created by the call
    doc,            \* the document opened in memory (sequence of pages)
    page_metadata,  \* sorter: list of [index, order_num, seq_num]
    result,         \* return value: "none" while running, then TRUE / FALSE
    page_num,       \* extractor: number of pages parsed so far
    items,          \* extractor: the records emitted so far
    emitted,        \* history: for each record of items, the page and line of its marker
    location_db,    \* aggregator: SKU -> Location table
    counts,         \* aggregator: insertion-ordered dict, a sequence of [key, count]
    summary_lines,  \* aggregator: the rendered lines
    args,           \* stamper: [location_text, sku_rect, page_index]
    database,       \* the file packing_list_database.csv: [exists, readable, sku_column, rows]
    changes_made,   \* marker: whether a strike line was drawn
    run,            \* marker: 1 in the first call on the file, 2 in the second
    df,             \* main / GUI: the table read from the database file
    items_to_process, \* main / GUI: what extract_all_items returned
    item_index,     \* main / GUI: number of items the stamp loop has handled
    stamps_successful, \* main / GUI: the counter of the same name
    steps,          \* history: the steps of the run, in the order they were taken
    editor_df,      \* database editor: the rows of self.df
    entry,          \* database editor: sku_var, location_var, description_var
    editor_call     \* history: the last handler of the editor, what it read, the rows before it

fsVars   == <<pdf, pdf0, tmp, temp_file, temps, doc, result>>
sortVars == <<page_metadata>>
exVars   == <<page_num, items, emitted>>
aggVars  == <<location_db, counts, summary_lines>>
markVars == <<changes_made, run>>
mainVars == <<df, items_to_process, item_index, stamps_successful, steps>>
editorVars == <<editor_df, entry, editor_call>>
vars == <<pc, mode, pdf, pdf0, tmp, temp_file, temps, doc, page_metadata, result,
          page_num, items, emitted, location_db, counts, summary_lines, args, database,
          changes_made, run, df, items_to_process, item_index, stamps_successful, steps,
          editor_df, entry, editor_call>>

-----------------------------------------------------------------------------
(* Bounds of the model.                                                    *)
MaxPages  == 3      \* pages of a document given to a sorter
MaxLines  == 4      \* lines of a page given to the extractor
MaxPrefix == 2      \* lines that precede the 'Widget A' block on its page
MaxItems  == 3      \* records given to aggregate_items
MaxSummaryLines == 50 \* summary lines given to create_summary_page on its own

-----------------------------------------------------------------------------
(* Characters and the character classes of Python's re and str.            *)
Digits == <<"0", "1", "2", "3", "4", "5", "6", "7", "8", "9">>
UpperSeq == <<"A","B","C","D","E","F","G","H","I","J","K","L","M",
             "N","O","P","Q","R","S","T","U","V","W","X","Y","Z">>
LowerSeq == <<"a","b","c","d","e","f","g","h","i","j","k","l","m",
             "n","o","p","q","r","s","t","u","v","w","x","y","z">>
Upper  == {UpperSeq[k] : k \in 1..26}
Lower  == {LowerSeq[k] : k \in 1..26}

IsDigit(c) == \E d \in 1..10 : Digits[d] = c
DigitVal(c) == (CHOOSE d \in 1..10 : Digits[d] = c) - 1
IsAlnum(c) == IsDigit(c) \/ c \in Upper \/ c \in Lower
IsSpace(c) == c \in {" ", "\t"}

\* ord(c), for the characters the model's strings are made of
CodePoint(c) ==
    IF IsDigit(c) THEN 48 + DigitVal(c)
    ELSE IF c \in Upper THEN 64 + (CHOOSE k \in 1..26 : UpperSeq[k] = c)
    ELSE IF c \in Lower THEN 96 + (CHOOSE k \in 1..26 : LowerSeq[k] = c)
    ELSE IF c = "\t" THEN 9
    ELSE IF c = " " THEN 32
    ELSE IF c = "#" THEN 35
    ELSE IF c = "(" THEN 40
    ELSE IF c = ")" THEN 41
    ELSE 58                              \* ":"

\* First position >= p of s that holds no whitespace (Len(s)+1 if none): \s*
SkipSpaces(s, p) ==
    CHOOSE q \in p..(Len(s) + 1) :
        /\ \A r \in p..(q - 1) : IsSpace(s[r])
        /\ q = Len(s) + 1 \/ ~IsSpace(s[q])

\* First position >= p of s that holds no digit (Len(s)+1 if none): \d*
SkipDigits(s, p) ==
    CHOOSE q \in p..(Len(s) + 1) :
        /\ \A r \in p..(q - 1) : IsDigit(s[r])
        /\ q = Len(s) + 1 \/ ~IsDigit(s[q])

\* s[p..] starts with pat
StartsAt(s, p, pat) ==
    /\ p >= 1
    /\ p + Len(pat) - 1 <= Len(s)
    /\ \A k \in 1..Len(pat) : s[p + k - 1] = pat[k]

\* int(<digits>)
RECURSIVE ParseInt(_)
ParseInt(ds) ==
    IF ds = <<>> THEN 0
    ELSE 10 * ParseInt(SubSeq(ds, 1, Len(ds) - 1)) + DigitVal(ds[Len(ds)])

\* str.strip()
RECURSIVE lstrip(_)
lstrip(s) == IF s /= <<>> /\ IsSpace(Head(s)) THEN lstrip(Tail(s)) ELSE s
RECURSIVE rstrip(_)
rstrip(s) ==
    IF s /= <<>> /\ IsSpace(s[Len(s)]) THEN rstrip(SubSeq(s, 1, Len(s) - 1)) ELSE s
strip(s) == rstrip(lstrip(s))

\* Concatenation of a sequence of strings
RECURSIVE Concat(_)
Concat(ss) == IF ss = <<>> THEN <<>> ELSE Head(ss) \o Concat(Tail(ss))

-----------------------------------------------------------------------------
(* The lines the modelled pages are made of.                               *)
S_Order     == <<"O","r","d","e","r"," ","#">>
S_of        == <<" ","o","f"," ">>
L_Order100  == <<"O","r","d","e","r"," ","#","1","0","0">>
L_Order200  == <<"O","r","d","e","r"," ","#","2","0","0">>
L_1of1      == <<"1"," ","o","f"," ","1">>
L_2of2      == <<"2"," ","o","f"," ","2">>
L_Page2of2  == <<"P","a","g","e"," ","2"," ","o","f"," ","2">>
L_Marker23  == <<" ","2"," "," ","o","f","\t","3"," ">>
L_WidgetA   == <<"W","i","d","g","e","t"," ","A">>
L_Blue      == <<"B","l","u","e">>
L_SizeL     == <<"S","i","z","e",":"," ","L">>
L_SKU12345  == <<"S","K","U","1","2","3","4","5">>
L_Empty     == <<>>
L_ITEMS     == <<"I","T","E","M","S">>
L_QUANTITY  == <<"Q","U","A","N","T","I","T","Y">>

NoneVal == "None"
\* no document open; a PDF document has at least one page
NoDoc   == <<>>
\* float('inf'): a value no int(<digits>) can take, ordered above all by OrderLess
Inf == -1

-----------------------------------------------------------------------------
(* Files.  The PDF at pdf_path holds a page sequence; rev changes whenever *)
(* the file's bytes are replaced.  The temporary file is absent, partial   *)
(* (created, save not finished) or complete.                               *)
NoTmp   == [state |-> "absent", pages |-> <<>>]
TmpName == "tmp.pdf"

\* no database file on disk
NoDatabase == [exists |-> FALSE, readable |-> FALSE, sku_column |-> FALSE, rows |-> <<>>]

MakeDoc(texts) == [k \in 1..Len(texts) |-> [id |-> k, text |-> texts[k]]]

\* self.df = None: no table loaded
NoDf == [loaded |-> FALSE, indexed |-> FALSE, rows |-> <<>>]

\* the locals of the functions that are not running
IdleMark   == changes_made = FALSE /\ run = 1
IdleMain   ==
    /\ df = NoDf /\ items_to_process = <<>> /\ item_index = 0
    /\ stamps_successful = 0 /\ steps = <<>>
NoEntry    == [sku |-> <<>>, location |-> <<>>, description |-> <<>>]
NoCall     == [op |-> "none"]
IdleEditor == editor_df = <<>> /\ entry = NoEntry /\ editor_call = NoCall

Idle ==
    /\ IdleMark /\ IdleMain /\ IdleEditor
    /\ page_metadata = <<>> /\ page_num = 0 /\ items = <<>>
    /\ emitted = <<>> /\ location_db = <<>> /\ counts = <<>>
    /\ summary_lines = <<>> /\ args = NoneVal /\ database = NoDatabase

FreshCall(pages) ==
    /\ pdf = [pages |-> pages, rev |-> 0]
    /\ pdf0 = pdf
    /\ tmp = NoTmp /\ temp_file = NoneVal /\ temps = 0
    /\ doc = NoDoc /\ result = "none"

-----------------------------------------------------------------------------
(* Sort keys: sorter.py and label_sorter.py.                               *)
(* Neither pattern can match across a line break (a literal space, a       *)
(* digit, '#', letters), so re.search over the page text is the first      *)
(* match of the first line that has one.                                   *)

\* r'Order #(\d+)' matches s at p
OrderAt(s, p) == StartsAt(s, p, S_Order) /\ p + 7 <= Len(s) /\ IsDigit(s[p + 7])

\* r'(\d+) of (\d+)' matches s at p (greedy \d+, no shorter match can succeed)
SeqAt(s, p) ==
    /\ p <= Len(s) /\ IsDigit(s[p])
    /\ LET q == SkipDigits(s, p)
       IN  StartsAt(s, q, S_of) /\ q + 4 <= Len(s) /\ IsDigit(s[q + 4])

HasOrder(s) == \E p \in 1..Len(s) : OrderAt(s, p)
HasSeq(s)   == \E p \in 1..Len(s) : SeqAt(s, p)

FirstOrderLine(text) ==
    CHOOSE k \in 1..Len(text) : HasOrder(text[k]) /\ \A j \in 1..(k - 1) : ~HasOrder(text[j])
FirstSeqLine(text) ==
    CHOOSE k \in 1..Len(text) : HasSeq(text[k]) /\ \A j \in 1..(k - 1) : ~HasSeq(text[j])

\* order_num of a page: int(order_match.group(1)) or float('inf')
order_num(text) ==
    IF \E k \in 1..Len(text) : HasOrder(text[k])
    THEN LET s == text[FirstOrderLine(text)]
             p == CHOOSE p \in 1..Len(s) : OrderAt(s, p) /\ \A q \in 1..(p - 1) : ~OrderAt(s, q)
         IN  ParseInt(SubSeq(s, p + 7, SkipDigits(s, p + 7) - 1))
    ELSE Inf

\* seq_num of a page: int(seq_match.group(1)) or 0
seq_num(text) ==
    IF \E k \in 1..Len(text) : HasSeq(text[k])
    THEN LET s == text[FirstSeqLine(text)]
             p == CHOOSE p \in 1..Len(s) : SeqAt(s, p) /\ \A q \in 1..(p - 1) : ~SeqAt(s, q)
         IN  ParseInt(SubSeq(s, p, SkipDigits(s, p) - 1))
    ELSE 0

\* a < b on order numbers, float('inf') above every int
OrderLess(a, b) == a /= Inf /\ (b = Inf \/ a < b)

\* a sort key that forgets the sequence number
SlipKeyLess_OrderOnly(x, y) == OrderLess(x.order_num, y.order_num)

\* key(x) < key(y) for key=lambda x: (x['order_num'], x['seq_num'])
SlipKeyLess(x, y) ==
    \/ OrderLess(x.order_num, y.order_num)
    \/ x.order_num = y.order_num /\ x.seq_num < y.seq_num

\* a comparison under which pages of equal order number change places
LabelKeyLess_TiesReversed(x, y) ==
    OrderLess(x.order_num, y.order_num) \/ x.order_num = y.order_num

\* key(x) < key(y) for key=lambda x: x['order_num']
LabelKeyLess(x, y) == OrderLess(x.order_num, y.order_num)

KeyLess(x, y) == IF mode = "labels" THEN LabelKeyLess(x, y) ELSE SlipKeyLess(x, y)

\* list.sort is stable: x goes before the first element whose key is greater
RECURSIVE InsertSorted(_, _)
InsertSorted(sorted, x) ==
    IF sorted = <<>> THEN <<x>>
    ELSE IF KeyLess(x, Head(sorted)) THEN <<x>> \o sorted
    ELSE <<Head(sorted)>> \o InsertSorted(Tail(sorted), x)

RECURSIVE SortMeta(_)
SortMeta(meta) ==
    IF meta = <<>> THEN <<>>
    ELSE InsertSorted(SortMeta(SubSeq(meta, 1, Len(meta) - 1)), meta[Len(meta)])

sorted_indices(meta) == [k \in 1..Len(meta) |-> SortMeta(meta)[k].index]

\* doc.select(sorted_indices)
Select(d, idxs) == [k \in 1..Len(idxs) |-> d[idxs[k]]]

-----------------------------------------------------------------------------
(* sort_pdf_pages / sort_shipping_labels, step by step.                    *)
P200     == <<L_Order200, L_1of1>>
P100     == <<L_Order100, L_1of1>>
P100b    == <<L_Order100, L_2of2>>
PNoOrder == <<L_WidgetA, L_1of1>>
PNoSeq   == <<L_Order100, L_WidgetA>>
PFooter  == <<L_Order100, L_Page2of2, L_1of1>>
SorterPages == {P200, P100, P100b, PNoOrder, PNoSeq, PFooter}

InitSort ==
    /\ pc = "open"
    /\ mode \in {"slips", "labels"}
    /\ \E n \in 1..MaxPages : \E texts \in [1..n -> SorterPages] : FreshCall(MakeDoc(texts))
    /\ Idle

\* doc = fitz.open(pdf_path)
SortOpen ==
    /\ pc = "open" /\ mode = "slips"
    /\ \/ doc' = pdf.pages /\ pc' = "scan"
       \/ doc' = doc /\ pc' = "except"
    /\ UNCHANGED <<mode, pdf, pdf0, tmp, temp_file, temps, page_metadata, result, exVars, aggVars, args, database, markVars, mainVars, editorVars>>

\* one iteration of: for page_index, page in enumerate(doc)
SortScan ==
    /\ pc = "scan" /\ mode = "slips"
    /\ Len(page_metadata) < Len(doc)
    /\ LET k == Len(page_metadata) + 1
       IN  page_metadata' = Append(page_metadata,
               [index |-> k, order_num |-> order_num(doc[k].text), seq_num |-> seq_num(doc[k].text)])
    /\ UNCHANGED <<pc, mode, fsVars, exVars, aggVars, args, database, markVars, mainVars, editorVars>>

\* the sorter without its "already in correct order" early return
SortDecide_AlwaysRewrite ==
    /\ pc = "scan" /\ mode = "slips"
    /\ Len(page_metadata) = Len(doc)
    /\ page_metadata' = SortMeta(page_metadata)
    /\ result' = result /\ pc' = "save"
    /\ doc' = Select(doc, sorted_indices(page_metadata))
    /\ UNCHANGED <<mode, pdf, pdf0, tmp, temp_file, temps, exVars, aggVars, args, database, markVars, mainVars, editorVars>>

\* sort, the identity check, and doc.select
SortDecide ==
    /\ pc = "scan" /\ mode = "slips"
    /\ Len(page_metadata) = Len(doc)
    /\ page_metadata' = SortMeta(page_metadata)
    /\ IF sorted_indices(page_metadata) = [k \in 1..Len(page_metadata) |-> k]
       THEN /\ result' = TRUE /\ pc' = "done"
            /\ doc' = doc
       ELSE /\ result' = result /\ pc' = "save"
            /\ doc' = Select(doc, sorted_indices(page_metadata))
    /\ UNCHANGED <<mode, pdf, pdf0, tmp, temp_file, temps, exVars, aggVars, args, database, markVars, mainVars, editorVars>>

\* temp_file = tempfile.NamedTemporaryFile(...).name; doc.save(temp_file); doc.close()
SortSave ==
    /\ pc = "save" /\ mode = "slips"
    /\ \/ /\ pc' = "except"                      \* no temporary file could be created
          /\ UNCHANGED <<tmp, temp_file, temps>>
       \/ /\ pc' = "except"                      \* doc.save raised part-way
          /\ tmp' = [state |-> "partial", pages |-> <<>>]
          /\ temp_file' = TmpName /\ temps' = temps + 1
       \/ /\ pc' = "replace"
          /\ tmp' = [state |-> "complete", pages |-> doc]
          /\ temp_file' = TmpName /\ temps' = temps + 1
    /\ UNCHANGED <<mode, pdf, pdf0, doc, page_metadata, result, exVars, aggVars, args, database, markVars, mainVars, editorVars>>

\* if os.path.exists(temp_file): os.replace(temp_file, pdf_path); return True
SortReplace ==
    /\ pc = "replace" /\ mode = "slips"
    /\ \/ /\ IF tmp.state /= "absent"
             THEN pdf' = [pages |-> tmp.pages, rev |-> pdf.rev + 1] /\ tmp' = NoTmp
             ELSE UNCHANGED <<pdf, tmp>>
          /\ result' = TRUE /\ pc' = "done"
       \/ /\ tmp.state /= "absent"               \* os.replace raised
          /\ pc' = "except"
          /\ UNCHANGED <<pdf, tmp, result>>
    /\ UNCHANGED <<mode, pdf0, temp_file, temps, doc, page_metadata, exVars, aggVars, args, database, markVars, mainVars, editorVars>>

\* except Exception: remove the temporary file if there is one; return False
SortExcept ==
    /\ pc = "except" /\ mode = "slips"
    /\ tmp' = IF temp_file /= NoneVal /\ tmp.state /= "absent" THEN NoTmp ELSE tmp
    /\ result' = FALSE /\ pc' = "done"
    /\ UNCHANGED <<mode, pdf, pdf0, temp_file, temps, doc, page_metadata, exVars, aggVars, args, database, markVars, mainVars, editorVars>>

\* label_sorter.py: the same steps, the key being order_num alone.
LabelOpen ==
    /\ pc = "open" /\ mode = "labels"
    /\ \/ doc' = pdf.pages /\ pc' = "scan"
       \/ doc' = doc /\ pc' = "except"
    /\ UNCHANGED <<mode, pdf, pdf0, tmp, temp_file, temps, page_metadata, result, exVars, aggVars, args, database, markVars, mainVars, editorVars>>

LabelScan ==
    /\ pc = "scan" /\ mode = "labels"
    /\ Len(page_metadata) < Len(doc)
    /\ LET k == Len(page_metadata) + 1
       IN  page_metadata' = Append(page_metadata,
               [index |-> k, order_num |-> order_num(doc[k].text)])
    /\ UNCHANGED <<pc, mode, fsVars, exVars, aggVars, args, database, markVars, mainVars, editorVars>>

LabelDecide ==
    /\ pc = "scan" /\ mode = "labels"
    /\ Len(page_metadata) = Len(doc)
    /\ page_metadata' = SortMeta(page_metadata)
    /\ IF sorted_indices(page_metadata) = [k \in 1..Len(page_metadata) |-> k]
       THEN /\ result' = TRUE /\ pc' = "done"
            /\ doc' = NoDoc                    \* doc.close()
       ELSE /\ result' = result /\ pc' = "save"
            /\ doc' = Select(doc, sorted_indices(page_metadata))
    /\ UNCHANGED <<mode, pdf, pdf0, tmp, temp_file, temps, exVars, aggVars, args, database, markVars, mainVars, editorVars>>

LabelSave ==
    /\ pc = "save" /\ mode = "labels"
    /\ \/ /\ pc' = "except"
          /\ UNCHANGED <<tmp, temp_file, temps>>
       \/ /\ pc' = "except"
          /\ tmp' = [state |-> "partial", pages |-> <<>>]
          /\ temp_file' = TmpName /\ temps' = temps + 1
       \/ /\ pc' = "replace"
          /\ tmp' = [state |-> "complete", pages |-> doc]
          /\ temp_file' = TmpName /\ temps' = temps + 1
    /\ UNCHANGED <<mode, pdf, pdf0, doc, page_metadata, result, exVars, aggVars, args, database, markVars, mainVars, editorVars>>

LabelReplace ==
    /\ pc = "replace" /\ mode = "labels"
    /\ \/ /\ IF tmp.state /= "absent"
             THEN pdf' = [pages |-> tmp.pages, rev |-> pdf.rev + 1] /\ tmp' = NoTmp
             ELSE UNCHANGED <<pdf, tmp>>
          /\ result' = TRUE /\ pc' = "done"
       \/ /\ tmp.state /= "absent"
          /\ pc' = "except"
          /\ UNCHANGED <<pdf, tmp, result>>
    /\ UNCHANGED <<mode, pdf0, temp_file, temps, doc, page_metadata, exVars, aggVars, args, database, markVars, mainVars, editorVars>>

LabelExcept ==
    /\ pc = "except" /\ mode = "labels"
    /\ tmp' = IF temp_file /= NoneVal /\ tmp.state /= "absent" THEN NoTmp ELSE tmp
    /\ result' = FALSE /\ pc' = "done"
    /\ UNCHANGED <<mode, pdf, pdf0, temp_file, temps, doc, page_metadata, exVars, aggVars, args, database, markVars, mainVars, editorVars>>

NextSort ==
    \/ SortOpen \/ SortScan \/ SortDecide \/ SortSave \/ SortReplace \/ SortExcept
    \/ LabelOpen \/ LabelScan \/ LabelDecide \/ LabelSave \/ LabelReplace \/ LabelExcept

SpecSort == InitSort /\ [][NextSort]_vars

-----------------------------------------------------------------------------
(* Properties of the sorters.                                              *)
IdsOf(pages) == [k \in 1..Len(pages) |-> pages[k].id]

\* the key of page x is at most the key of page y, (order, seq) compared as pairs
SlipKeyAtMost(x, y) ==
    LET xo == order_num(x.text)  yo == order_num(y.text)
    IN  \/ xo /= Inf /\ yo = Inf
        \/ xo /= Inf /\ yo /= Inf /\ xo < yo
        \/ xo = yo /\ seq_num(x.text) <= seq_num(y.text)

LabelKeyAtMost(x, y) ==
    LET xo == order_num(x.text)  yo == order_num(y.text)
    IN  yo = Inf \/ (xo /= Inf /\ xo <= yo)

IsPermutationOf(out, in) ==
    /\ Len(out) = Len(in)
    /\ \A k \in 1..Len(in) : \E j \in 1..Len(out) : out[j] = in[k]
    /\ \A j, k \in 1..Len(out) : out[j].id = out[k].id => j = k

\* C1: after a successful sort_pdf_pages the pages are a permutation of the
\* original pages, in non-decreasing order of (order_number, sequence_number),
\* pages of equal key in their original relative order, pages without an
\* order marker after all pages with one; [Order #200, Order #100] ends as
\* [Order #100, Order #200].
SlipsSortedStable ==
    (pc = "done" /\ mode = "slips" /\ result = TRUE) =>
        LET out == pdf.pages
            n   == Len(out)
        IN  /\ IsPermutationOf(out, pdf0.pages)
            /\ \A j, k \in 1..n : j < k => SlipKeyAtMost(out[j], out[k])
            /\ \A j, k \in 1..n :
                  (j < k /\ SlipKeyAtMost(out[k], out[j])) => out[j].id < out[k].id
            /\ \A j, k \in 1..n :
                  (order_num(out[j].text) = Inf /\ order_num(out[k].text) /= Inf) => k < j
            /\ [k \in 1..Len(pdf0.pages) |-> pdf0.pages[k].text] = <<P200, P100>>
                  => IdsOf(out) = <<2, 1>>

SlipsReordered ==
    /\ pc = "done" /\ mode = "slips" /\ result = TRUE
    /\ [k \in 1..Len(pdf0.pages) |-> pdf0.pages[k].text] = <<P200, P100>>
    /\ IdsOf(pdf.pages) = <<2, 1>> /\ pdf.rev = 1

AlreadySorted ==
    \A j, k \in 1..Len(pdf0.pages) :
        j < k => IF mode = "labels"
                 THEN LabelKeyAtMost(pdf0.pages[j], pdf0.pages[k])
                 ELSE SlipKeyAtMost(pdf0.pages[j], pdf0.pages[k])

\* C2: on a document whose pages are already in sorted order, sort_pdf_pages
\* and sort_shipping_labels create no temporary file, replace nothing, leave
\* the file as it was, and still return True (once the document was opened).
NoWriteWhenSorted ==
    (mode \in {"slips", "labels"} /\ AlreadySorted) =>
        /\ temps = 0 /\ tmp = NoTmp /\ pdf = pdf0
        /\ (pc = "done" /\ page_metadata /= <<>>) => result = TRUE

SortedLeftAlone ==
    /\ mode \in {"slips", "labels"} /\ AlreadySorted
    /\ Len(pdf0.pages) >= 2
    /\ pc = "done" /\ result = TRUE /\ pdf = pdf0 /\ temps = 0

\* C17: after a successful sort_shipping_labels the pages are a permutation
\* of the original pages in non-decreasing order of order_number alone; pages
\* of equal order number, and the pages without one, keep their original
\* relative order whatever their sequence markers; pages without an order
\* number come last.
LabelsSortedStable ==
    (pc = "done" /\ mode = "labels" /\ result = TRUE) =>
        LET out == pdf.pages
            n   == Len(out)
        IN  /\ IsPermutationOf(out, pdf0.pages)
            /\ \A j, k \in 1..n : j < k => LabelKeyAtMost(out[j], out[k])
            /\ \A j, k \in 1..n :
                  (j < k /\ order_num(out[j].text) = order_num(out[k].text))
                      => out[j].id < out[k].id
            /\ \A j, k \in 1..n :
                  (order_num(out[j].text) = Inf /\ order_num(out[k].text) /= Inf) => k < j

LabelsIgnoreSequence ==
    /\ pc = "done" /\ mode = "labels" /\ result = TRUE
    /\ [k \in 1..Len(pdf0.pages) |-> pdf0.pages[k].text] = <<P200, P100b, P100>>
    /\ IdsOf(pdf.pages) = <<2, 3, 1>> /\ pdf.rev = 1

-----------------------------------------------------------------------------
(* extract_items_from_pdf: the sequence-marker anchored extractor.         *)
S_Size    == <<"S","i","z","e",":">>
S_NO_SKU  == <<"N","O"," ","S","K","U">>
NameLookback == 2                       \* for _ in range(2)

\* re.match(r'^\s*\d+\s+of\s+\d+\s*$', s)
IsSeqMarker(s) ==
    LET a == SkipSpaces(s, 1)
        b == SkipDigits(s, a)
        c == SkipSpaces(s, b)
        d == c + 2
        e == SkipSpaces(s, d)
        f == SkipDigits(s, e)
        g == SkipSpaces(s, f)
    IN  /\ b > a /\ c > b
        /\ StartsAt(s, c, <<"o", "f">>)
        /\ e > d /\ f > e
        /\ g = Len(s) + 1

\* re.match(r'^[A-Za-z0-9]{5,15}$', s) and not s.startswith("Size:")
IsSkuToken(s) ==
    /\ Len(s) >= 5 /\ Len(s) <= 15
    /\ \A k \in 1..Len(s) : IsAlnum(s[k])
    /\ ~StartsAt(s, 1, S_Size)

\* steps 1 and 2 at the marker on line k: the SKU line, then the size line
HasSkuLine(ls, k)  == k - 1 >= 1 /\ IsSkuToken(strip(ls[k - 1]))
\* an extractor that takes the line before the marker as the SKU, whatever it reads
extracted_sku_AnyLine(ls, k) == IF k - 1 >= 1 THEN strip(ls[k - 1]) ELSE S_NO_SKU

extracted_sku(ls, k) == IF HasSkuLine(ls, k) THEN strip(ls[k - 1]) ELSE S_NO_SKU
SizeCursor(ls, k)  == IF HasSkuLine(ls, k) THEN k - 2 ELSE k - 1
HasSizeLine(ls, k) ==
    SizeCursor(ls, k) >= 1 /\ StartsAt(strip(ls[SizeCursor(ls, k)]), 1, S_Size)
extracted_size(ls, k) == IF HasSizeLine(ls, k) THEN strip(ls[SizeCursor(ls, k)]) ELSE <<>>
NameCursor(ls, k)  == IF HasSizeLine(ls, k) THEN SizeCursor(ls, k) - 1 ELSE SizeCursor(ls, k)

\* a walk that does not know the "ITEMS" header
RECURSIVE NameWalk_NoItemsStop(_, _, _)
NameWalk_NoItemsStop(ls, c, budget) ==
    IF budget = 0 \/ c < 1 THEN <<>>
    ELSE LET line_content == strip(ls[c])
         IN  IF \/ line_content = <<>>
                \/ line_content = L_QUANTITY
                \/ IsSeqMarker(line_content)
             THEN <<>>
             ELSE Append(NameWalk_NoItemsStop(ls, c - 1, budget - 1), line_content)

\* step 3: name_lines, walking back from the cursor c for at most budget lines
RECURSIVE NameWalk(_, _, _)
NameWalk(ls, c, budget) ==
    IF budget = 0 \/ c < 1 THEN <<>>
    ELSE LET line_content == strip(ls[c])
         IN  IF \/ line_content = <<>>
                \/ line_content = L_QUANTITY
                \/ IsSeqMarker(line_content)
                \/ line_content = L_ITEMS
             THEN <<>>
             ELSE Append(NameWalk(ls, c - 1, budget - 1), line_content)

\* a walk that takes a single name line
name_lines_OneLine(ls, k) == NameWalk(ls, NameCursor(ls, k), 1)

name_lines(ls, k) == NameWalk(ls, NameCursor(ls, k), NameLookback)

\* " ".join(parts)
RECURSIVE JoinSpace(_)
JoinSpace(parts) ==
    IF parts = <<>> THEN <<>>
    ELSE IF Len(parts) = 1 THEN parts[1]
    ELSE parts[1] \o <<" ">> \o JoinSpace(Tail(parts))

ItemAt(ls, k) ==
    [name |-> JoinSpace(name_lines(ls, k)),
     sku  |-> extracted_sku(ls, k),
     size |-> extracted_size(ls, k)]

\* an extractor that appends whatever the walk found
Emit_Always(rec) == <<rec>>

\* if extracted_name: items.append(...)
Emit(rec) == IF rec.name /= <<>> THEN <<rec>> ELSE <<>>

\* the forward pass over the lines 1..k of page pg: what is appended, and where from
RECURSIVE PageEmits(_, _, _)
PageEmits(ls, pg, k) ==
    IF k = 0 THEN <<>>
    ELSE PageEmits(ls, pg, k - 1) \o
         (IF IsSeqMarker(ls[k])
          THEN [n \in 1..Len(Emit(ItemAt(ls, k))) |->
                    [page |-> pg, line |-> k, rec |-> Emit(ItemAt(ls, k))[n]]]
          ELSE <<>>)

ExtractorLines == {L_WidgetA, L_Blue, L_SizeL, L_SKU12345, L_Marker23,
                   L_Empty, L_ITEMS, L_QUANTITY}
\* a page that ends inside an item block: its lines belong to no later page
PDangling == <<L_WidgetA, L_SKU12345>>

InitExtract ==
    /\ pc = "open" /\ mode = "extract"
    /\ \E n \in 1..MaxLines : \E ls \in [1..n -> ExtractorLines] :
           \E texts \in {<<ls>>, <<PDangling, ls>>} : FreshCall(MakeDoc(texts))
    /\ Idle

\* a page whose last four lines are the Widget A block and its marker
InitWidget ==
    /\ pc = "open" /\ mode = "extract"
    /\ \E n \in 0..MaxPrefix : \E pre \in [1..n -> ExtractorLines] :
           \E marker \in {L_1of1, L_Marker23} :
               FreshCall(MakeDoc(<<pre \o <<L_WidgetA, L_SizeL, L_SKU12345, marker>> >>))
    /\ Idle

\* doc = fitz.open(pdf_path)
ExtractOpen ==
    /\ pc = "open" /\ mode = "extract"
    /\ \/ doc' = pdf.pages /\ pc' = "parse"
       \/ doc' = doc /\ pc' = "except"
    /\ UNCHANGED <<mode, pdf, pdf0, tmp, temp_file, temps, result, sortVars, exVars, aggVars, args, database, markVars, mainVars, editorVars>>

\* one iteration of: for page_num, page in enumerate(doc)
ExtractPage ==
    /\ pc = "parse" /\ mode = "extract"
    /\ page_num < Len(doc)
    /\ LET pg == page_num + 1
           em == PageEmits(doc[pg].text, pg, Len(doc[pg].text))
       IN  /\ items' = items \o [n \in 1..Len(em) |-> em[n].rec]
           /\ emitted' = emitted \o [n \in 1..Len(em) |-> [page |-> pg, line |-> em[n].line]]
           /\ page_num' = pg
    /\ UNCHANGED <<pc, mode, fsVars, sortVars, aggVars, args, database, markVars, mainVars, editorVars>>

\* return items
ExtractReturn ==
    /\ pc = "parse" /\ mode = "extract"
    /\ page_num = Len(doc)
    /\ result' = items /\ pc' = "done"
    /\ UNCHANGED <<mode, pdf, pdf0, tmp, temp_file, temps, doc, sortVars, exVars, aggVars, args, database, markVars, mainVars, editorVars>>

\* except Exception: return []
ExtractExcept ==
    /\ pc = "except" /\ mode = "extract"
    /\ result' = <<>> /\ pc' = "done"
    /\ UNCHANGED <<mode, pdf, pdf0, tmp, temp_file, temps, doc, sortVars, exVars, aggVars, args, database, markVars, mainVars, editorVars>>

NextExtract == ExtractOpen \/ ExtractPage \/ ExtractReturn \/ ExtractExcept

SpecExtract == InitExtract /\ [][NextExtract]_vars
SpecWidget  == InitWidget /\ [][NextExtract]_vars

-----------------------------------------------------------------------------
(* The sorter's sequence number against the sequence-marker rule.         *)
\* the first line of the page that is a sequence marker, a line consisting
\* solely of '<int> of <int>' with whitespace around it allowed, and its first integer
MarkerSeq(text) ==
    IF \E k \in 1..Len(text) : IsSeqMarker(text[k])
    THEN LET k == CHOOSE k \in 1..Len(text) :
                      IsSeqMarker(text[k]) /\ \A j \in 1..(k - 1) : ~IsSeqMarker(text[j])
             a == SkipSpaces(text[k], 1)
         IN  ParseInt(SubSeq(text[k], a, SkipDigits(text[k], a) - 1))
    ELSE 0

\* C16: the sequence_number the sorter gives a page is the first integer of
\* the page's first sequence-marker line, and 0 when the page has no such
\* line; '<int> of <int>' inside a longer line does not count.
SeqFromMarkerLineOnly ==
    mode = "slips" =>
        \A j \in 1..Len(page_metadata) :
            page_metadata[j].seq_num = MarkerSeq(pdf0.pages[page_metadata[j].index].text)

-----------------------------------------------------------------------------
(* Properties of the extractor.                                            *)
Parsed == pc = "done" /\ mode = "extract" /\ doc /= NoDoc

\* the records appended for the marker on line k of page pg
RecordsAt(pg, k) == {n \in 1..Len(items) : emitted[n] = [page |-> pg, line |-> k]}

\* a line at which the name walk stops
IsBoundaryLine(l) ==
    LET t == strip(l)
    IN  t = <<>> \/ t = L_ITEMS \/ t = L_QUANTITY \/ IsSeqMarker(t)

WidgetRecord == [name |-> L_WidgetA, sku |-> L_SKU12345, size |-> L_SizeL]

\* C3 as stated: whatever precedes 'Widget A', the marker after 'Widget A',
\* 'Size: L', 'SKU12345' yields exactly the record {Widget A, Size: L, SKU12345}.
WidgetRecordExact ==
    Parsed =>
        LET k == Len(doc[1].text)
        IN  /\ Cardinality(RecordsAt(1, k)) = 1
            /\ \A n \in RecordsAt(1, k) : items[n] = WidgetRecord

\* C3, amended: the marker yields exactly one record, with sku 'SKU12345' and
\* size 'Size: L'; its name is 'Widget A' when 'Widget A' starts the page or
\* follows a boundary line (empty, 'ITEMS', 'QUANTITY', a sequence marker),
\* and otherwise the stripped preceding line, a space, and 'Widget A'.
WidgetRecordAfterBoundary ==
    Parsed =>
        LET ls == doc[1].text
            k  == Len(ls)
        IN  /\ Cardinality(RecordsAt(1, k)) = 1
            /\ \A n \in RecordsAt(1, k) :
                  /\ items[n].sku = L_SKU12345
                  /\ items[n].size = L_SizeL
                  /\ items[n].name =
                        IF k - 4 < 1 \/ IsBoundaryLine(ls[k - 4])
                        THEN L_WidgetA
                        ELSE strip(ls[k - 4]) \o <<" ">> \o L_WidgetA

WidgetAfterHeader ==
    /\ Parsed
    /\ Len(doc[1].text) = 5 /\ doc[1].text[1] = L_ITEMS
    /\ \E n \in RecordsAt(1, 5) : items[n] = WidgetRecord

\* C4: the name of a record is built from the at most 2 contiguous lines just
\* before the size / SKU lines of its marker, walking back and stopping at a
\* boundary line or the start of the page, joined in page order by single
\* spaces; no boundary line is part of a name.
NameFromAtMostTwoLines ==
    \A n \in 1..Len(items) :
        LET ls == doc[emitted[n].page].text
            c  == NameCursor(ls, emitted[n].line)
        IN  /\ c >= 1 /\ ~IsBoundaryLine(ls[c])
            /\ items[n].name =
                  IF c - 1 < 1 \/ IsBoundaryLine(ls[c - 1])
                  THEN strip(ls[c])
                  ELSE strip(ls[c - 1]) \o <<" ">> \o strip(ls[c])

NameCappedAtTwo ==
    /\ Parsed
    /\ \E n \in 1..Len(items) :
          /\ emitted[n].line = 4
          /\ doc[emitted[n].page].text = <<L_Blue, L_WidgetA, L_Blue, L_Marker23>>
          /\ items[n].name = L_WidgetA \o <<" ">> \o L_Blue

\* C5: a record is emitted for a sequence-marker line exactly when the walk
\* gives a non-empty name: no record has an empty name, a marker gives at
\* most one record, and a marker with an empty name gives none, also when a
\* SKU or size line was captured for it; other lines give no record.
RecordIffNameNonEmpty ==
    /\ Len(items) = Len(emitted)
    /\ \A n \in 1..Len(items) : items[n].name /= <<>>
    /\ mode = "extract" =>
          \A pg \in 1..page_num : \A k \in 1..Len(doc[pg].text) :
              Cardinality(RecordsAt(pg, k)) =
                  IF IsSeqMarker(doc[pg].text[k]) /\ name_lines(doc[pg].text, k) /= <<>>
                  THEN 1 ELSE 0

MarkerWithSkuDropped ==
    /\ Parsed
    /\ Len(doc) = 1 /\ doc[1].text = <<L_SKU12345, L_Marker23>>
    /\ HasSkuLine(doc[1].text, 2)
    /\ items = <<>>

-----------------------------------------------------------------------------
(* aggregate_items.                                                        *)
S_NoLocation == <<"N","o"," ","L","o","c","a","t","i","o","n">>
S_Shirt      == <<"S","h","i","r","t">>
S_ABC1234    == <<"A","B","C","1","2","3","4">>
S_SizeM      == <<"S","i","z","e",":"," ","M">>
S_A1         == <<"A","1">>
S_B2pad      == <<" ","B","2"," ">>
S_Blank      == <<" "," ">>
S_nan        == <<"n","a","n">>
\* the float NaN pandas gives an empty cell: no string equals it
NaN          == <<"float('nan')">>

\* a < b on str: by code point, a proper prefix being smaller
StrLess(a, b) ==
    \E p \in 1..(Len(b)) :
        /\ p <= Len(a) + 1
        /\ \A q \in 1..(p - 1) : a[q] = b[q]
        /\ p = Len(a) + 1 \/ CodePoint(a[p]) < CodePoint(b[p])

\* f"{count}"
RECURSIVE Dec(_)
Dec(n) == IF n < 10 THEN <<Digits[n + 1]>> ELSE Dec(n \div 10) \o <<Digits[(n % 10) + 1]>>

\* a dict keyed by (name, sku) only
CountStep_KeyWithoutSize(cs, item) ==
    IF \E j \in 1..Len(cs) : cs[j].key.name = item.name /\ cs[j].key.sku = item.sku
    THEN [j \in 1..Len(cs) |->
             IF cs[j].key.name = item.name /\ cs[j].key.sku = item.sku
             THEN [cs[j] EXCEPT !.count = @ + 1] ELSE cs[j]]
    ELSE Append(cs, [key |-> item, count |-> 1])

\* counts[key] = counts.get(key, 0) + 1, the dict keeping insertion order
CountStep(cs, item) ==
    IF \E j \in 1..Len(cs) : cs[j].key = item
    THEN [j \in 1..Len(cs) |-> IF cs[j].key = item THEN [cs[j] EXCEPT !.count = @ + 1] ELSE cs[j]]
    ELSE Append(cs, [key |-> item, count |-> 1])

\* what location_db[sku] raises for a missing key
KeyErrorVal == <<"KeyError">>

\* a lookup without the "sku in location_db" guard
Location_NoGuard(sku, db) ==
    IF sku \in DOMAIN db
    THEN LET loc_val == db[sku]
         IN  IF loc_val /= NaN /\ strip(loc_val) /= <<>> THEN strip(loc_val) ELSE S_NoLocation
    ELSE KeyErrorVal

\* a lookup that forgets pd.isna: str(nan) is rendered
Location_NoNaNCheck(sku, db) ==
    IF sku \in DOMAIN db
    THEN LET loc_val == IF db[sku] = NaN THEN S_nan ELSE db[sku]
         IN  IF strip(loc_val) /= <<>> THEN strip(loc_val) ELSE S_NoLocation
    ELSE S_NoLocation

\* the location lookup of one group
Location(sku, db) ==
    IF sku \in DOMAIN db
    THEN LET loc_val == db[sku]
         IN  IF loc_val /= NaN /\ strip(loc_val) /= <<>> THEN strip(loc_val) ELSE S_NoLocation
    ELSE S_NoLocation

\* f"{display_name} ({sku}) ({location}) x{count}"
FormatLine(key, count, db) ==
    LET display_name ==
            IF key.size /= <<>> THEN key.name \o <<" ", "(">> \o key.size \o <<")">> ELSE key.name
    IN  display_name \o <<" ", "(">> \o key.sku \o <<")", " ", "(">> \o Location(key.sku, db)
            \o <<")", " ", "x">> \o Dec(count)

RECURSIVE InsertLine(_, _)
InsertLine(sorted, x) ==
    IF sorted = <<>> THEN <<x>>
    ELSE IF StrLess(x, Head(sorted)) THEN <<x>> \o sorted
    ELSE <<Head(sorted)>> \o InsertLine(Tail(sorted), x)

\* an aggregator that returns the lines in dict order
SortLines_DictOrder(ls) == ls

\* summary_lines.sort()
RECURSIVE SortLines(_)
SortLines(ls) ==
    IF ls = <<>> THEN <<>>
    ELSE InsertLine(SortLines(SubSeq(ls, 1, Len(ls) - 1)), ls[Len(ls)])

RECURSIVE CountAll(_)
CountAll(its) ==
    IF its = <<>> THEN <<>>
    ELSE CountStep(CountAll(SubSeq(its, 1, Len(its) - 1)), its[Len(its)])

\* aggregate_items(items, location_db) as a function of its arguments
aggregate_items(its, db) ==
    LET cs == CountAll(its)
    IN  SortLines([j \in 1..Len(cs) |-> FormatLine(cs[j].key, cs[j].count, db)])

RECURSIVE Consumed(_)
Consumed(cs) == IF cs = <<>> THEN 0 ELSE Head(cs).count + Consumed(Tail(cs))

R_ShirtM == [name |-> S_Shirt, sku |-> S_ABC1234, size |-> S_SizeM]
R_ShirtL == [name |-> S_Shirt, sku |-> S_ABC1234, size |-> L_SizeL]
R_Widget == [name |-> L_WidgetA, sku |-> L_SKU12345, size |-> <<>>]
R_NoSku  == [name |-> L_Blue, sku |-> S_NO_SKU, size |-> <<>>]
RecordPool == {R_ShirtM, R_ShirtL, R_Widget, R_NoSku}

\* the tables: ABC1234 absent or with any kind of Location cell, SKU12345 absent or located
DbPool ==
    {[s \in d |-> IF s = S_ABC1234 THEN v ELSE S_A1] :
        d \in SUBSET {S_ABC1234, L_SKU12345},
        v \in {NaN, <<>>, S_Blank, S_A1, S_B2pad}}

InitAgg ==
    /\ pc = "count" /\ mode = "aggregate"
    /\ FreshCall(<<>>)
    /\ page_metadata = <<>> /\ page_num = 0 /\ emitted = <<>> /\ args = NoneVal
    /\ database = NoDatabase
    /\ IdleMark /\ IdleMain /\ IdleEditor
    /\ \E n \in 0..MaxItems : items \in [1..n -> RecordPool]
    /\ location_db \in DbPool
    /\ counts = <<>> /\ summary_lines = <<>>

\* one iteration of: for item in items
AggCount ==
    /\ pc = "count" /\ mode = "aggregate"
    /\ Consumed(counts) < Len(items)
    /\ counts' = CountStep(counts, items[Consumed(counts) + 1])
    /\ UNCHANGED <<pc, mode, fsVars, sortVars, exVars, location_db, summary_lines, args, database, markVars, mainVars, editorVars>>

\* one iteration of: for (name, sku, size), count in counts.items()
AggFormat ==
    /\ pc = "count" /\ mode = "aggregate"
    /\ Consumed(counts) = Len(items)
    /\ Len(summary_lines) < Len(counts)
    /\ LET c == counts[Len(summary_lines) + 1]
       IN  IF Location(c.key.sku, location_db) = KeyErrorVal
           THEN pc' = "raised" /\ summary_lines' = summary_lines
           ELSE pc' = pc /\ summary_lines' = Append(summary_lines, FormatLine(c.key, c.count, location_db))
    /\ UNCHANGED <<mode, fsVars, sortVars, exVars, location_db, counts, args, database, markVars, mainVars, editorVars>>

\* summary_lines.sort(); return summary_lines
AggSort ==
    /\ pc = "count" /\ mode = "aggregate"
    /\ Consumed(counts) = Len(items)
    /\ Len(summary_lines) = Len(counts)
    /\ summary_lines' = SortLines(summary_lines)
    /\ result' = summary_lines' /\ pc' = "done"
    /\ UNCHANGED <<mode, pdf, pdf0, tmp, temp_file, temps, doc, sortVars, exVars, location_db, counts, args, database, markVars, mainVars, editorVars>>

NextAgg == AggCount \/ AggFormat \/ AggSort

SpecAgg == InitAgg /\ [][NextAgg]_vars

-----------------------------------------------------------------------------
(* Properties of the aggregator.                                           *)
Aggregated == pc = "done" /\ mode = "aggregate"

KeysOf(its)     == {its[k] : k \in 1..Len(its)}
Occurs(its, r)  == Cardinality({k \in 1..Len(its) : its[k] = r})
EndsWith(s, suffix) == Len(s) >= Len(suffix) /\ StartsAt(s, Len(s) - Len(suffix) + 1, suffix)

\* C6: records are grouped by (name, sku, size); each group has one summary
\* line, whose count is the number of input records with that key: every
\* count is >= 1, the counts sum to the number of records, and two records
\* (Shirt, ABC1234, Size: M) give the single line ending in 'x2'.
CountsPerKey ==
    Aggregated =>
        /\ Len(counts) = Cardinality(KeysOf(items))
        /\ Len(summary_lines) = Cardinality(KeysOf(items))
        /\ Consumed(counts) = Len(items)
        /\ \A j \in 1..Len(counts) :
              /\ counts[j].count >= 1
              /\ counts[j].count = Occurs(items, counts[j].key)
        /\ \A r \in KeysOf(items) :
              /\ \E j \in 1..Len(counts) : counts[j].key = r
              /\ \E j \in 1..Len(summary_lines) :
                    /\ summary_lines[j] = FormatLine(r, Occurs(items, r), location_db)
                    /\ StartsAt(summary_lines[j], 1, r.name)
                    /\ EndsWith(summary_lines[j], <<" ", "x">> \o Dec(Occurs(items, r)))
        /\ \A v \in {summary_lines[j] : j \in 1..Len(summary_lines)} :
              Cardinality({j \in 1..Len(summary_lines) : summary_lines[j] = v}) =
              Cardinality({r \in KeysOf(items) : FormatLine(r, Occurs(items, r), location_db) = v})
        /\ items = <<R_ShirtM, R_ShirtM>> =>
              /\ Len(summary_lines) = 1
              /\ StartsAt(summary_lines[1], 1,
                     S_Shirt \o <<" ", "(">> \o S_SizeM \o <<")", " ", "(">> \o S_ABC1234 \o <<")", " ", "(">>)
              /\ EndsWith(summary_lines[1], <<")", " ", "x", "2">>)

TwoShirtsOneLine ==
    /\ Aggregated
    /\ items = <<R_ShirtM, R_ShirtM>>
    /\ Len(summary_lines) = 1 /\ EndsWith(summary_lines[1], <<"x", "2">>)

\* C7: aggregate_items gives the same sorted list of lines for every
\* permutation of the record list (the location table being the same).
OrderIndependent ==
    Aggregated =>
        \A f \in Permutations(1..Len(items)) :
            aggregate_items([k \in 1..Len(items) |-> items[f[k]]], location_db) = summary_lines

SortedAgainstInputOrder ==
    /\ Aggregated
    /\ items = <<R_Widget, R_ShirtM>>
    /\ Len(summary_lines) = 2
    /\ StartsAt(summary_lines[1], 1, S_Shirt) /\ StartsAt(summary_lines[2], 1, L_WidgetA)

\* the table has no usable location for sku
NoLocationOnFile(sku, db) ==
    \/ sku \notin DOMAIN db
    \/ db[sku] = NaN
    \/ \A k \in 1..Len(db[sku]) : IsSpace(db[sku][k])

\* "<name>[ (<size>)] (<sku>) (<loc>) x<n>"
Rendered(r, loc, n) ==
    r.name \o (IF r.size = <<>> THEN <<>> ELSE <<" ", "(">> \o r.size \o <<")">>)
        \o <<" ", "(">> \o r.sku \o <<")", " ", "(">> \o loc \o <<")", " ", "x">> \o Dec(n)

\* C8: a record whose SKU is missing from the table, or has an empty,
\* whitespace-only or not-a-value location, is shown with 'No Location', and
\* nothing is raised; a real location is shown only when the table maps the
\* SKU to a non-empty value.
SentinelWhenNoLocation ==
    /\ pc /= "raised"
    /\ Aggregated =>
          \A r \in KeysOf(items) :
              \E j \in 1..Len(summary_lines) :
                  summary_lines[j] =
                      Rendered(r,
                               IF NoLocationOnFile(r.sku, location_db)
                               THEN S_NoLocation
                               ELSE strip(location_db[r.sku]),
                               Occurs(items, r))

NaNShownAsNoLocation ==
    /\ Aggregated
    /\ items = <<R_ShirtM, R_NoSku>>
    /\ S_ABC1234 \in DOMAIN location_db /\ location_db[S_ABC1234] = NaN
    /\ summary_lines = << Rendered(R_NoSku, S_NoLocation, 1), Rendered(R_ShirtM, S_NoLocation, 1) >>

-----------------------------------------------------------------------------
(* write_location_to_pdf (stamper.py).  A page carries the stamps written  *)
(* on it; args is [location_text, sku_rect, page_index], page_index        *)
(* counted from 1 here.                                                    *)
OFFSET_Y   == 11
S_LOCATION == <<"L","O","C","A","T","I","O","N",":"," ">>
Rect1 == [x0 |-> 10, y0 |-> 20, x1 |-> 60, y1 |-> 30]
\* sku_rect = None (an item whose SKU text was not located)
NoRect == [none |-> TRUE]

\* a stamp that replaces what was stamped on the page before
Stamped_Overwrite(pages, a) ==
    [pages EXCEPT ![a.page_index].stamps =
        <<[x |-> a.sku_rect.x0, y |-> a.sku_rect.y1 + OFFSET_Y,
           text |-> S_LOCATION \o a.location_text]>>]

Stamped(pages, a) ==
    [pages EXCEPT ![a.page_index].stamps =
        Append(@, [x |-> a.sku_rect.x0, y |-> a.sku_rect.y1 + OFFSET_Y,
                   text |-> S_LOCATION \o a.location_text])]

InitStamp ==
    /\ pc = "open" /\ mode = "stamp"
    /\ \E n \in 1..MaxPages : \E old \in [1..n -> {<<>>, <<[x |-> 10, y |-> 41, text |-> S_LOCATION \o S_A1]>>}] :
           /\ FreshCall([k \in 1..n |-> [id |-> k, text |-> <<L_SizeL, L_SKU12345>>, stamps |-> old[k]]])
           /\ \E k \in 1..(n + 1) : \E r \in {NoRect, Rect1} :
                  args = [location_text |-> S_A1, sku_rect |-> r, page_index |-> k]
    /\ page_metadata = <<>> /\ page_num = 0 /\ items = <<>> /\ emitted = <<>>
    /\ location_db = <<>> /\ counts = <<>> /\ summary_lines = <<>>
    /\ database = NoDatabase
    /\ IdleMark /\ IdleMain /\ IdleEditor

\* doc = fitz.open(pdf_path)
StampOpen ==
    /\ pc = "open" /\ mode = "stamp"
    /\ \/ doc' = pdf.pages /\ pc' = "insert"
       \/ doc' = doc /\ pc' = "except"
    /\ UNCHANGED <<mode, pdf, pdf0, tmp, temp_file, temps, result, sortVars, exVars, aggVars, args, database, markVars, mainVars, editorVars>>

\* page = doc[page_index]; the point below the SKU; page.insert_text(...)
StampInsert ==
    /\ pc = "insert" /\ mode = "stamp"
    /\ IF args.page_index > Len(doc) \/ args.sku_rect = NoRect
       THEN pc' = "except" /\ doc' = doc         \* IndexError / AttributeError
       ELSE \/ pc' = "save" /\ doc' = Stamped(doc, args)
            \/ pc' = "except" /\ doc' = doc      \* insert_text raised
    /\ UNCHANGED <<mode, pdf, pdf0, tmp, temp_file, temps, result, sortVars, exVars, aggVars, args, database, markVars, mainVars, editorVars>>

\* temp_file = tempfile.NamedTemporaryFile(...).name; doc.save(temp_file, ...); doc.close()
StampSave ==
    /\ pc = "save" /\ mode = "stamp"
    /\ \/ /\ pc' = "except"                      \* no temporary file could be created
          /\ UNCHANGED <<tmp, temp_file, temps>>
       \/ /\ pc' = "except"                      \* doc.save raised part-way
          /\ tmp' = [state |-> "partial", pages |-> <<>>]
          /\ temp_file' = TmpName /\ temps' = temps + 1
       \/ /\ pc' = "except"                      \* doc.close raised after the save
          /\ tmp' = [state |-> "complete", pages |-> doc]
          /\ temp_file' = TmpName /\ temps' = temps + 1
       \/ /\ pc' = "replace"
          /\ tmp' = [state |-> "complete", pages |-> doc]
          /\ temp_file' = TmpName /\ temps' = temps + 1
    /\ UNCHANGED <<mode, pdf, pdf0, doc, result, sortVars, exVars, aggVars, args, database, markVars, mainVars, editorVars>>

\* if os.path.exists(temp_file): os.replace(temp_file, pdf_path); return True
StampReplace ==
    /\ pc = "replace" /\ mode = "stamp"
    /\ \/ /\ IF tmp.state /= "absent"
             THEN pdf' = [pages |-> tmp.pages, rev |-> pdf.rev + 1] /\ tmp' = NoTmp
             ELSE UNCHANGED <<pdf, tmp>>
          /\ result' = TRUE /\ pc' = "done"
       \/ /\ tmp.state /= "absent"               \* os.replace raised
          /\ pc' = "except"
          /\ UNCHANGED <<pdf, tmp, result>>
    /\ UNCHANGED <<mode, pdf0, temp_file, temps, doc, sortVars, exVars, aggVars, args, database, markVars, mainVars, editorVars>>

\* a handler that only reports
StampExcept_NoCleanup ==
    /\ pc = "except" /\ mode = "stamp"
    /\ result' = FALSE /\ pc' = "done"
    /\ UNCHANGED <<mode, pdf, pdf0, tmp, temp_file, temps, doc, sortVars, exVars, aggVars, args, database, markVars, mainVars, editorVars>>

\* except Exception: remove the temporary file if there is one; return False
StampExcept ==
    /\ pc = "except" /\ mode = "stamp"
    /\ tmp' = IF temp_file /= NoneVal /\ tmp.state /= "absent" THEN NoTmp ELSE tmp
    /\ result' = FALSE /\ pc' = "done"
    /\ UNCHANGED <<mode, pdf, pdf0, temp_file, temps, doc, sortVars, exVars, aggVars, args, database, markVars, mainVars, editorVars>>

NextStamp == StampOpen \/ StampInsert \/ StampSave \/ StampReplace \/ StampExcept

SpecStamp == InitStamp /\ [][NextStamp]_vars

\* C9: when a step of write_location_to_pdf fails, the PDF on disk is as it
\* was before the call, no temporary file is left, and False is returned;
\* the PDF changes only in the final replace, to the completely saved
\* stamped document.
StampFailureLeavesOriginal ==
    mode = "stamp" =>
        /\ (pc = "done" /\ result = FALSE) => (pdf = pdf0 /\ tmp = NoTmp)
        /\ (pc = "done" /\ result = TRUE) => tmp = NoTmp
        /\ pc = "done" => result \in {TRUE, FALSE}
        /\ pdf /= pdf0 =>
              /\ pc = "done" /\ result = TRUE
              /\ pdf.rev = pdf0.rev + 1
              /\ pdf.pages = Stamped(pdf0.pages, args)
        /\ tmp.state = "partial" => pdf = pdf0

StampFailedAfterTempMade ==
    /\ mode = "stamp" /\ pc = "done" /\ result = FALSE
    /\ temps = 1 /\ temp_file = TmpName
    /\ tmp = NoTmp /\ pdf = pdf0

-----------------------------------------------------------------------------
(* process_pdf (aggregator.py) as main() calls it: load, extract,          *)
(* aggregate, build the summary pages, merge, save, replace.               *)
FirstY        == 80
NextPageY     == 50
line_height   == 15
PageThreshold == 800
S_Title == <<"P","a","c","k","i","n","g"," ","L","i","s","t"," ","S","u","m","m","a","r","y">>
S_ABC1234pad == <<" ","A","B","C","1","2","3","4"," ">>

\* load_database(): {} when the file is missing, cannot be read or has no
\* SKU column, else SKU (stripped) -> Location, the last row of a SKU winning
load_database(db) ==
    IF ~db.exists \/ ~db.readable \/ ~db.sku_column THEN <<>>
    ELSE [s \in {strip(db.rows[k].SKU) : k \in 1..Len(db.rows)} |->
             db.rows[CHOOSE k \in 1..Len(db.rows) :
                        /\ strip(db.rows[k].SKU) = s
                        /\ \A j \in (k + 1)..Len(db.rows) : strip(db.rows[j].SKU) /= s].Location]

\* extract_items_from_pdf over the pages 1..n of an opened document
RECURSIVE ExtractPages(_, _)
ExtractPages(pages, n) ==
    IF n = 0 THEN <<>>
    ELSE ExtractPages(pages, n - 1) \o
         LET em == PageEmits(pages[n].text, n, Len(pages[n].text))
         IN  [k \in 1..Len(em) |-> em[k].rec]

\* create_summary_page: the loop over summary_lines, pages being [id, text, ys]
RECURSIVE Paginate(_, _, _)
Paginate(ls, pages, y_pos) ==
    IF ls = <<>> THEN pages
    ELSE LET placed == [pages EXCEPT ![Len(pages)].text = Append(@, Head(ls)),
                                     ![Len(pages)].ys = Append(@, y_pos)]
         IN  IF y_pos + line_height > PageThreshold
             THEN Paginate(Tail(ls), Append(placed, [id |-> 0, text |-> <<>>, ys |-> <<>>]), NextPageY)
             ELSE Paginate(Tail(ls), placed, y_pos + line_height)

create_summary_page(ls) ==
    Paginate(ls, <<[id |-> 0, text |-> <<S_Title>>, ys |-> <<NextPageY>>]>>, FirstY)

PShirt  == <<S_Shirt, S_SizeM, S_ABC1234, L_1of1>>
PWidget == <<L_ITEMS, L_WidgetA, L_SKU12345, L_Marker23>>
PNoItem == <<L_Order100, L_Blue>>
\* a CSV file that pd.read_csv reads and that has the columns SKU and Location
Table(rows) == [exists |-> TRUE, readable |-> TRUE, sku_column |-> TRUE, rows |-> rows]

\* no file; a file read_csv cannot read; a CSV without a SKU column; tables
DatabasePool ==
    {NoDatabase,
     [exists |-> TRUE, readable |-> FALSE, sku_column |-> FALSE, rows |-> <<>>],
     [exists |-> TRUE, readable |-> TRUE, sku_column |-> FALSE, rows |-> <<>>],
     Table(<<[SKU |-> S_ABC1234, Location |-> S_A1]>>),
     Table(<<[SKU |-> S_ABC1234pad, Location |-> S_B2pad], [SKU |-> L_SKU12345, Location |-> NaN]>>)}

S_ErrOpen    == "ERROR generating summary page: open"
S_ErrSave    == "ERROR generating summary page: save"
S_ErrReplace == "ERROR generating summary page: replace"
S_Updated    == "Updated with summary page."
S_NoItems    == "No items found. Check file format."

InitSummary ==
    /\ pc = "load" /\ mode = "summary"
    /\ \E n \in 1..MaxPages : \E texts \in [1..n -> {PShirt, PWidget, PNoItem}] :
           FreshCall(MakeDoc(texts))
    /\ database \in DatabasePool
    /\ page_metadata = <<>> /\ page_num = 0 /\ items = <<>> /\ emitted = <<>>
    /\ location_db = <<>> /\ counts = <<>> /\ summary_lines = <<>> /\ args = NoneVal
    /\ IdleMark /\ IdleMain /\ IdleEditor

\* db = load_database()
PPLoad ==
    /\ pc = "load" /\ mode = "summary"
    /\ location_db' = load_database(database)
    /\ pc' = "extract"
    /\ UNCHANGED <<mode, fsVars, sortVars, exVars, counts, summary_lines, args, database, markVars, mainVars, editorVars>>

\* items = extract_items_from_pdf(pdf_path); if not items: return
PPExtract ==
    /\ pc = "extract" /\ mode = "summary"
    /\ \/ items' = ExtractPages(pdf.pages, Len(pdf.pages))
       \/ items' = <<>>                          \* the extractor's except branch
    /\ IF items' = <<>>
       THEN pc' = "done" /\ result' = S_NoItems
       ELSE pc' = "aggregate" /\ result' = result
    /\ UNCHANGED <<mode, pdf, pdf0, tmp, temp_file, temps, doc, sortVars, page_num, emitted,
                   aggVars, args, database, markVars, mainVars, editorVars>>

\* summary_lines = aggregate_items(items, db); summary_doc = create_summary_page(summary_lines)
PPAggregate ==
    /\ pc = "aggregate" /\ mode = "summary"
    /\ summary_lines' = aggregate_items(items, location_db)
    /\ doc' = create_summary_page(summary_lines')
    /\ pc' = "merge"
    /\ UNCHANGED <<mode, pdf, pdf0, tmp, temp_file, temps, result, sortVars, exVars,
                   location_db, counts, args, database, markVars, mainVars, editorVars>>

\* original_doc = fitz.open(pdf_path); summary_doc.insert_pdf(original_doc)
PPMerge ==
    /\ pc = "merge" /\ mode = "summary"
    /\ \/ doc' = doc \o pdf.pages /\ pc' = "save"
       \/ doc' = doc /\ pc' = "raise_open"
    /\ UNCHANGED <<mode, pdf, pdf0, tmp, temp_file, temps, result, sortVars, exVars, aggVars,
                   args, database, markVars, mainVars, editorVars>>

\* summary_doc.save("temp_summary.pdf")
PPSave ==
    /\ pc = "save" /\ mode = "summary"
    /\ \/ /\ pc' = "replace"
          /\ tmp' = [state |-> "complete", pages |-> doc] /\ temps' = temps + 1
       \/ /\ pc' = "raise_save"                  \* save raised part-way
          /\ tmp' = [state |-> "partial", pages |-> <<>>] /\ temps' = temps + 1
       \/ /\ pc' = "raise_save"                  \* save raised before the file was made
          /\ UNCHANGED <<tmp, temps>>
    /\ UNCHANGED <<mode, pdf, pdf0, temp_file, doc, result, sortVars, exVars, aggVars, args, database, markVars, mainVars, editorVars>>

\* os.replace(temp_name, pdf_path)
PPReplace ==
    /\ pc = "replace" /\ mode = "summary"
    /\ \/ /\ pdf' = [pages |-> tmp.pages, rev |-> pdf.rev + 1] /\ tmp' = NoTmp
          /\ result' = S_Updated /\ pc' = "done"
       \/ /\ pc' = "raise_replace"
          /\ UNCHANGED <<pdf, tmp, result>>
    /\ UNCHANGED <<mode, pdf0, temp_file, temps, doc, sortVars, exVars, aggVars, args, database, markVars, mainVars, editorVars>>

\* main(): except Exception as e: print(f"ERROR generating summary page: {e}")
MainCatch ==
    /\ pc \in {"raise_open", "raise_save", "raise_replace"} /\ mode = "summary"
    /\ result' = (IF pc = "raise_open" THEN S_ErrOpen
                  ELSE IF pc = "raise_save" THEN S_ErrSave ELSE S_ErrReplace)
    /\ pc' = "done"
    /\ UNCHANGED <<mode, pdf, pdf0, tmp, temp_file, temps, doc, sortVars, exVars, aggVars,
                   args, database, markVars, mainVars, editorVars>>

NextSummary == PPLoad \/ PPExtract \/ PPAggregate \/ PPMerge \/ PPSave \/ PPReplace \/ MainCatch

SpecSummary == InitSummary /\ [][NextSummary]_vars

\* C10: when the save of the summary document fails, the failure is caught
\* and reported, the partial file temp_summary.pdf is removed, and the
\* original PDF is untouched.
SummarySaveFailureCleansUp ==
    (mode = "summary" /\ pc = "done" /\ result = S_ErrSave) =>
        (tmp = NoTmp /\ pdf = pdf0)

-----------------------------------------------------------------------------
(* mark_preorders (preorder_marker.py).  A page carries the strike lines   *)
(* drawn on it and whether the spatial search finds text on it; a drawn    *)
(* line leaves the page's text as it was.                                  *)
S_pre          == <<"p","r","e">>
S_order        == <<"o","r","d","e","r">>
L_PreOrder     == <<"P","r","e","-","O","r","d","e","r">>
L_pre_order    == <<"p","r","e"," ","o","r","d","e","r">>
L_PREORDERBlue == <<"P","R","E","O","R","D","E","R"," ","B","l","u","e">>

\* re.IGNORECASE / the case-insensitive search of page.search_for
ToLower(c) == IF c \in Upper THEN LowerSeq[CHOOSE k \in 1..26 : UpperSeq[k] = c] ELSE c
LowerStr(s) == [k \in 1..Len(s) |-> ToLower(s[k])]
StartsAtNoCase(s, p, pat) == StartsAt(LowerStr(s), p, LowerStr(pat))

\* length of the match of r"pre[- ]?order" at position p of s, 0 when there is none
PreorderLen(s, p) ==
    IF ~StartsAtNoCase(s, p, S_pre) THEN 0
    ELSE IF p + 3 <= Len(s) /\ s[p + 3] \in {"-", " "} /\ StartsAtNoCase(s, p + 4, S_order) THEN 9
    ELSE IF StartsAtNoCase(s, p + 3, S_order) THEN 8
    ELSE 0

\* re.finditer over one line, from position p: the matched strings, left to right
RECURSIVE LineMatches(_, _)
LineMatches(s, p) ==
    IF p > Len(s) THEN <<>>
    ELSE IF PreorderLen(s, p) > 0
         THEN <<SubSeq(s, p, p + PreorderLen(s, p) - 1)>> \o LineMatches(s, p + PreorderLen(s, p))
         ELSE LineMatches(s, p + 1)

\* matches = list(re.finditer(pattern, full_text, re.IGNORECASE)); no match spans a line break
RECURSIVE PageMatches(_)
PageMatches(text) ==
    IF text = <<>> THEN <<>> ELSE LineMatches(Head(text), 1) \o PageMatches(Tail(text))

\* the rectangle of the n characters at column p of line k
RectAt(k, p, n) == [x0 |-> p, y0 |-> 10 * k, x1 |-> p + n, y1 |-> 10 * k + 10]

\* the occurrences of needle in line k, from column p
RECURSIVE LineHits(_, _, _, _)
LineHits(s, k, needle, p) ==
    IF p + Len(needle) - 1 > Len(s) THEN <<>>
    ELSE IF StartsAtNoCase(s, p, needle)
         THEN <<RectAt(k, p, Len(needle))>> \o LineHits(s, k, needle, p + Len(needle))
         ELSE LineHits(s, k, needle, p + 1)

RECURSIVE TextHits(_, _, _)
TextHits(text, k, needle) ==
    IF k > Len(text) THEN <<>>
    ELSE LineHits(text[k], k, needle, 1) \o TextHits(text, k + 1, needle)

\* page.search_for(needle): every occurrence on the page, in reading order;
\* nothing on a page whose text the spatial search cannot locate
search_for(page, needle) == IF page.searchable THEN TextHits(page.text, 1, needle) ELSE <<>>

\* shape.draw_line(p1, p2) through the middle of rect
Strike(rect) ==
    [p1 |-> <<rect.x0, (rect.y0 + rect.y1) \div 2>>,
     p2 |-> <<rect.x1, (rect.y0 + rect.y1) \div 2>>]

\* for match in matches: for rect in page.search_for(match.group()): draw
RECURSIVE StrikesFor(_, _)
StrikesFor(page, ms) ==
    IF ms = <<>> THEN <<>>
    ELSE LET text_instances == search_for(page, Head(ms))
         IN  [j \in 1..Len(text_instances) |-> Strike(text_instances[j])]
                 \o StrikesFor(page, Tail(ms))

PMarkNone  == <<L_Order100, L_WidgetA>>
PMarkOne   == <<L_WidgetA, L_PreOrder>>
PMarkTwice == <<L_PreOrder, L_Blue, L_PreOrder>>
PMarkMixed == <<L_PREORDERBlue, L_pre_order>>
MarkerPages == {PMarkNone, PMarkOne, PMarkTwice, PMarkMixed}

MarkDoc(texts, flags) ==
    [k \in 1..Len(texts) |->
        [id |-> k, text |-> texts[k], strikes |-> <<>>, stamps |-> <<>>, searchable |-> flags[k]]]

InitMark ==
    /\ pc = "open" /\ mode = "mark"
    /\ \E n \in 1..MaxPages : \E texts \in [1..n -> MarkerPages] : \E flags \in [1..n -> BOOLEAN] :
           FreshCall(MarkDoc(texts, flags))
    /\ page_metadata = <<>> /\ page_num = 0 /\ items = <<>> /\ emitted = <<>>
    /\ location_db = <<>> /\ counts = <<>> /\ summary_lines = <<>> /\ args = NoneVal
    /\ database = NoDatabase
    /\ IdleMark /\ IdleMain /\ IdleEditor

\* doc = fitz.open(pdf_path)
MarkOpen ==
    /\ pc = "open" /\ mode = "mark"
    /\ \/ doc' = pdf.pages /\ pc' = "scan"
       \/ doc' = doc /\ pc' = "except"
    /\ UNCHANGED <<mode, pdf, pdf0, tmp, temp_file, temps, result, sortVars, exVars, aggVars, args, database, markVars, mainVars, editorVars>>

\* one iteration of: for page_index, page in enumerate(doc)
MarkPage ==
    /\ pc = "scan" /\ mode = "mark"
    /\ page_num < Len(doc)
    /\ LET pg  == page_num + 1
           new == StrikesFor(doc[pg], PageMatches(doc[pg].text))
       IN  /\ doc' = [doc EXCEPT ![pg].strikes = @ \o new]
           /\ changes_made' = (changes_made \/ new /= <<>>)
           /\ page_num' = pg
    /\ UNCHANGED <<pc, mode, pdf, pdf0, tmp, temp_file, temps, result, sortVars, items, emitted, aggVars, args, database, run, mainVars, editorVars>>

\* a marker that saves whether or not a line was drawn
MarkSave_AlwaysSave ==
    /\ pc = "scan" /\ mode = "mark"
    /\ page_num = Len(doc)
    /\ pc' = "replace"
    /\ tmp' = [state |-> "complete", pages |-> doc]
    /\ temp_file' = TmpName /\ temps' = temps + 1
    /\ result' = result
    /\ UNCHANGED <<mode, pdf, pdf0, doc, sortVars, exVars, aggVars, args, database, markVars, mainVars, editorVars>>

\* if changes_made: temp_file = ...; doc.save(temp_file, garbage=3); doc.close()
\* else: doc.close(); return True
MarkSave ==
    /\ pc = "scan" /\ mode = "mark"
    /\ page_num = Len(doc)
    /\ IF changes_made
       THEN /\ \/ /\ pc' = "except"               \* no temporary file could be created
                  /\ UNCHANGED <<tmp, temp_file, temps>>
               \/ /\ pc' = "except"               \* doc.save raised part-way
                  /\ tmp' = [state |-> "partial", pages |-> <<>>]
                  /\ temp_file' = TmpName /\ temps' = temps + 1
               \/ /\ pc' = "except"               \* doc.close raised after the save
                  /\ tmp' = [state |-> "complete", pages |-> doc]
                  /\ temp_file' = TmpName /\ temps' = temps + 1
               \/ /\ pc' = "replace"
                  /\ tmp' = [state |-> "complete", pages |-> doc]
                  /\ temp_file' = TmpName /\ temps' = temps + 1
            /\ result' = result
       ELSE /\ result' = TRUE /\ pc' = "done"
            /\ UNCHANGED <<tmp, temp_file, temps>>
    /\ UNCHANGED <<mode, pdf, pdf0, doc, sortVars, exVars, aggVars, args, database, markVars, mainVars, editorVars>>

\* if os.path.exists(temp_file): os.replace(temp_file, pdf_path); return True
MarkReplace ==
    /\ pc = "replace" /\ mode = "mark"
    /\ \/ /\ IF tmp.state /= "absent"
             THEN pdf' = [pages |-> tmp.pages, rev |-> pdf.rev + 1] /\ tmp' = NoTmp
             ELSE UNCHANGED <<pdf, tmp>>
          /\ result' = TRUE /\ pc' = "done"
       \/ /\ tmp.state /= "absent"               \* os.replace raised
          /\ pc' = "except"
          /\ UNCHANGED <<pdf, tmp, result>>
    /\ UNCHANGED <<mode, pdf0, temp_file, temps, doc, sortVars, exVars, aggVars, args, database, markVars, mainVars, editorVars>>

\* except Exception: remove the temporary file if there is one; return False
MarkExcept ==
    /\ pc = "except" /\ mode = "mark"
    /\ tmp' = IF temp_file /= NoneVal /\ tmp.state /= "absent" THEN NoTmp ELSE tmp
    /\ result' = FALSE /\ pc' = "done"
    /\ UNCHANGED <<mode, pdf, pdf0, temp_file, temps, doc, sortVars, exVars, aggVars, args, database, markVars, mainVars, editorVars>>

\* mark_preorders(pdf_path) is called again on the file the first call left
MarkAgain ==
    /\ pc = "done" /\ mode = "mark" /\ run = 1
    /\ run' = 2 /\ pc' = "open"
    /\ pdf0' = pdf /\ temps' = 0 /\ temp_file' = NoneVal /\ changes_made' = FALSE
    /\ doc' = NoDoc /\ result' = "none" /\ page_num' = 0
    /\ UNCHANGED <<mode, pdf, tmp, sortVars, items, emitted, aggVars, args, database, mainVars, editorVars>>

NextMark == MarkOpen \/ MarkPage \/ MarkSave \/ MarkReplace \/ MarkExcept \/ MarkAgain

SpecMark == InitMark /\ [][NextMark]_vars

-----------------------------------------------------------------------------
(* Properties of the marker.                                               *)

\* the page shows 'preorder', 'pre-order' or 'pre order' in some case
HasPreorderText(page) ==
    \E k \in 1..Len(page.text) : \E p \in 1..Len(page.text[k]) :
        \E lit \in {<<"p","r","e","o","r","d","e","r">>,
                    <<"p","r","e","-","o","r","d","e","r">>,
                    <<"p","r","e"," ","o","r","d","e","r">>} :
            StartsAt(LowerStr(page.text[k]), p, lit)

NothingToStrike ==
    \A k \in 1..Len(pdf0.pages) : ~(HasPreorderText(pdf0.pages[k]) /\ pdf0.pages[k].searchable)

\* C11: when no page of the document has a pre-order match that can be
\* located as a rectangle, mark_preorders creates no temporary file, replaces
\* nothing, leaves the file as it was, and returns True once it has scanned
\* the pages.
NoWriteWhenNoPreorder ==
    (mode = "mark" /\ NothingToStrike) =>
        /\ temps = 0 /\ tmp = NoTmp /\ pdf = pdf0
        /\ (pc = "done" /\ page_num = Len(pdf0.pages)) => result = TRUE

UnlocatedMatchLeftAlone ==
    /\ mode = "mark" /\ run = 1 /\ NothingToStrike
    /\ \E k \in 1..Len(pdf0.pages) : HasPreorderText(pdf0.pages[k])
    /\ \E k \in 1..Len(pdf0.pages) : ~HasPreorderText(pdf0.pages[k])
    /\ pc = "done" /\ result = TRUE /\ pdf = pdf0 /\ temps = 0

\* C12: a second run of mark_preorders on a document the first run marked
\* (nothing added in between) writes nothing and draws no further line: the
\* file stays as the first run left it.
SecondRunWritesNothing ==
    (mode = "mark" /\ run = 2 /\ \E k \in 1..Len(pdf0.pages) : pdf0.pages[k].strikes /= <<>>) =>
        /\ temps = 0 /\ pdf = pdf0
        /\ \A k \in 1..Len(doc) : doc[k].strikes = pdf0.pages[k].strikes

\* the texts that read as pre-order, in lower case
PreorderLiterals ==
    {<<"p","r","e","o","r","d","e","r">>,
     <<"p","r","e","-","o","r","d","e","r">>,
     <<"p","r","e"," ","o","r","d","e","r">>}

\* the rectangles of a page at which pre-order text is located
LocatedRects(page) ==
    IF ~page.searchable THEN {}
    ELSE UNION {{RectAt(k, p, Len(lit)) :
                    p \in {q \in 1..Len(page.text[k]) : StartsAt(LowerStr(page.text[k]), q, lit)}} :
                k \in 1..Len(page.text), lit \in PreorderLiterals}

\* C23: in one run of mark_preorders on an unmarked document, each rectangle
\* at which pre-order text is located is struck by exactly one line: on every
\* page scanned, the lines drawn are the middle lines of the located
\* rectangles, one each, also when the same text is matched more than once.
OneStrikePerRectangle ==
    (mode = "mark" /\ run = 1 /\ pc \in {"scan", "replace", "done"}) =>
        \A k \in 1..page_num :
            /\ Len(doc[k].strikes) = Cardinality(LocatedRects(doc[k]))
            /\ \A r \in LocatedRects(doc[k]) :
                  Cardinality({j \in 1..Len(doc[k].strikes) : doc[k].strikes[j] = Strike(r)}) = 1

-----------------------------------------------------------------------------
(* extract_all_items (stamper.py): the size-marker anchored extractor.     *)
(* Records are [sku, rect, page_index], page_index counted from 1 here.    *)
S_00000 == <<"0","0","0","0","0">>
L_SizeLarge == <<"S","i","z","e",":"," ","L","a","r","g","e">>

\* full_text.find("Size:", last_size_index + 1), repeated: the occurrences of
\* 'Size:' in line k from column p on, as <<line, column>>
RECURSIVE SizeHitsInLine(_, _, _)
SizeHitsInLine(s, k, p) ==
    IF p > Len(s) THEN <<>>
    ELSE IF StartsAt(s, p, S_Size) THEN << <<k, p>> >> \o SizeHitsInLine(s, k, p + 1)
    ELSE SizeHitsInLine(s, k, p + 1)

RECURSIVE SizeHits(_, _)
SizeHits(text, k) ==
    IF k > Len(text) THEN <<>>
    ELSE SizeHitsInLine(text[k], k, 1) \o SizeHits(text, k + 1)

\* number of characters of [A-Za-z0-9] in a row from column q of s
RECURSIVE AlnumRun(_, _)
AlnumRun(s, q) == IF q <= Len(s) /\ IsAlnum(s[q]) THEN 1 + AlnumRun(s, q + 1) ELSE 0

\* re.search(r'([A-Za-z0-9]{5,15})', ...) within one line from column p: the
\* leftmost match, greedy up to 15 characters; <<>> when there is none
SkuInLine(s, p) ==
    IF \E q \in p..Len(s) : AlnumRun(s, q) >= 5
    THEN LET q == CHOOSE q \in p..Len(s) :
                      AlnumRun(s, q) >= 5 /\ \A r \in p..(q - 1) : AlnumRun(s, r) < 5
             n == IF AlnumRun(s, q) > 15 THEN 15 ELSE AlnumRun(s, q)
         IN  SubSeq(s, q, q + n - 1)
    ELSE <<>>

\* the same search over text_after_size = full_text[size_index:]; a line
\* break is no alphanumeric character, so the match lies within one line
RECURSIVE SkuAfter(_, _, _)
SkuAfter(text, k, p) ==
    IF k > Len(text) THEN <<>>
    ELSE IF SkuInLine(text[k], p) /= <<>> THEN SkuInLine(text[k], p)
    ELSE SkuAfter(text, k + 1, 1)

\* what one pass of the while loop appends for the 'Size:' at line k, column p
ItemFor(page, pg, k, p) ==
    LET extracted        == SkuAfter(page.text, k, p)
        sku_only_results == search_for(page, extracted)
    IN  IF extracted = <<>>
        THEN <<[sku |-> S_00000, rect |-> NoRect, page_index |-> pg]>>
        ELSE IF sku_only_results /= <<>>
        THEN <<[sku |-> extracted, rect |-> sku_only_results[1], page_index |-> pg]>>
        ELSE IF extracted = S_00000
        THEN <<[sku |-> S_00000, rect |-> NoRect, page_index |-> pg]>>
        ELSE <<>>

\* the while loop over the 'Size:' occurrences hits[1..n] of one page
RECURSIVE PageItems(_, _, _, _)
PageItems(page, pg, hits, n) ==
    IF n = 0 THEN <<>>
    ELSE PageItems(page, pg, hits, n - 1) \o ItemFor(page, pg, hits[n][1], hits[n][2])

\* extract_all_items over the pages 1..n of an opened document
RECURSIVE AllItems(_, _)
AllItems(pages, n) ==
    IF n = 0 THEN <<>>
    ELSE AllItems(pages, n - 1) \o
         PageItems(pages[n], n, SizeHits(pages[n].text, 1), Len(SizeHits(pages[n].text, 1)))

PItemOne    == <<L_WidgetA, L_SizeL, L_SKU12345, L_1of1>>
PItemTwo    == <<L_Blue, L_SizeL, L_SKU12345, L_1of1, L_Blue, S_SizeM, S_ABC1234, L_2of2>>
PItemNoSku  == <<L_Blue, L_SizeL, L_1of1>>
PItemLarge  == <<L_Blue, L_SizeLarge, S_ABC1234, L_1of1>>
PItemNone   == <<L_Order100, L_Blue>>
ItemPages   == {PItemOne, PItemTwo, PItemNoSku, PItemLarge, PItemNone}

InitItems ==
    /\ pc = "open" /\ mode = "items"
    /\ \E n \in 1..MaxPages : \E texts \in [1..n -> ItemPages] : \E flags \in [1..n -> BOOLEAN] :
           FreshCall(MarkDoc(texts, flags))
    /\ page_metadata = <<>> /\ page_num = 0 /\ items = <<>> /\ emitted = <<>>
    /\ location_db = <<>> /\ counts = <<>> /\ summary_lines = <<>> /\ args = NoneVal
    /\ database = NoDatabase
    /\ IdleMark /\ IdleMain /\ IdleEditor

\* doc = fitz.open(pdf_path)
ItemsOpen ==
    /\ pc = "open" /\ mode = "items"
    /\ \/ doc' = pdf.pages /\ pc' = "parse"
       \/ doc' = doc /\ pc' = "except"
    /\ UNCHANGED <<mode, pdf, pdf0, tmp, temp_file, temps, result, sortVars, exVars, aggVars, args, database, markVars, mainVars, editorVars>>

\* one iteration of: for page_index, page in enumerate(doc); items holds items_to_stamp
ItemsPage ==
    /\ pc = "parse" /\ mode = "items"
    /\ page_num < Len(doc)
    /\ LET pg == page_num + 1
       IN  /\ items' = items \o PageItems(doc[pg], pg, SizeHits(doc[pg].text, 1),
                                          Len(SizeHits(doc[pg].text, 1)))
           /\ page_num' = pg
    /\ UNCHANGED <<pc, mode, fsVars, sortVars, emitted, aggVars, args, database, markVars, mainVars, editorVars>>

\* return items_to_stamp
ItemsReturn ==
    /\ pc = "parse" /\ mode = "items"
    /\ page_num = Len(doc)
    /\ result' = items /\ pc' = "done"
    /\ UNCHANGED <<mode, pdf, pdf0, tmp, temp_file, temps, doc, sortVars, exVars, aggVars, args, database, markVars, mainVars, editorVars>>

\* except Exception: return []
ItemsExcept ==
    /\ pc = "except" /\ mode = "items"
    /\ result' = <<>> /\ pc' = "done"
    /\ UNCHANGED <<mode, pdf, pdf0, tmp, temp_file, temps, doc, sortVars, exVars, aggVars, args, database, markVars, mainVars, editorVars>>

NextItems == ItemsOpen \/ ItemsPage \/ ItemsReturn \/ ItemsExcept

SpecItems == InitItems /\ [][NextItems]_vars

-----------------------------------------------------------------------------
(* Properties of the size-marker anchored extractor.                       *)

\* the record the 'Size:' at line k, column p of a page stands for: its SKU or
\* the sentinel, and the first rectangle of the spatial search or none
RecordOfSize(page, pg, k, p) ==
    LET sku  == SkuAfter(page.text, k, p)
        hits == search_for(page, sku)
    IN  IF sku = <<>>
        THEN [sku |-> S_00000, rect |-> NoRect, page_index |-> pg]
        ELSE [sku |-> sku, rect |-> IF hits = <<>> THEN NoRect ELSE hits[1], page_index |-> pg]

RECURSIVE RecordsOfPage(_, _, _, _)
RecordsOfPage(page, pg, hits, n) ==
    IF n = 0 THEN <<>>
    ELSE Append(RecordsOfPage(page, pg, hits, n - 1),
                RecordOfSize(page, pg, hits[n][1], hits[n][2]))

RECURSIVE RecordsOfPages(_, _)
RecordsOfPages(pages, n) ==
    IF n = 0 THEN <<>>
    ELSE RecordsOfPages(pages, n - 1) \o
         RecordsOfPage(pages[n], n, SizeHits(pages[n].text, 1), Len(SizeHits(pages[n].text, 1)))

\* C18: extract_all_items returns exactly one record for every occurrence of
\* 'Size:', in page order then occurrence order: sentinel SKU '00000' and no
\* rectangle when no SKU-shaped text follows; otherwise that SKU with the
\* first rectangle of the spatial search, or with no rectangle when the
\* search does not locate the text.
OneRecordPerSize ==
    (mode = "items" /\ pc = "done" /\ doc /= NoDoc) =>
        result = RecordsOfPages(pdf0.pages, Len(pdf0.pages))

-----------------------------------------------------------------------------
(* A packing-slip run: main() of main.py and _process_packing_slips of     *)
(* gui.py, which is the same code behind a different database check.  Each *)
(* call of the run is one step with the outcomes the called function has:  *)
(* it succeeds, or it fails and leaves the file as it was.                 *)
S_SKU_NOT_FOUND == <<"S","K","U"," ","N","O","T"," ","F","O","U","N","D">>
S_LOCATION_NOT_DEFINED ==
    <<"L","O","C","A","T","I","O","N"," ","N","O","T"," ","D","E","F","I","N","E","D">>
S_ExitNotFound == "ERROR: Database file not found"
S_ExitCsv      == "CRITICAL ERROR: Could not load or process CSV"
S_NotLoaded    == "ERROR: Database not loaded!"
S_NoSize       == "ERROR: No 'Size:' declarations were found"

\* main.py: df = pd.read_csv(...); df['SKU'] = df['SKU'].astype(str); df = df.set_index('SKU')
MainDf(db) == [loaded |-> TRUE, indexed |-> TRUE, rows |-> db.rows]

\* gui.py load_database: self.df is assigned by read_csv before the SKU
\* column is touched, so a CSV without that column leaves a table without index
GuiDf(db) ==
    IF ~db.exists \/ ~db.readable THEN NoDf
    ELSE [loaded |-> TRUE, indexed |-> db.sku_column, rows |-> db.rows]

\* a lookup that stamps whatever the Location cell holds
location_to_stamp_NoNaNCheck(sku, d) ==
    IF ~d.indexed \/ \A k \in 1..Len(d.rows) : d.rows[k].SKU /= sku
    THEN S_SKU_NOT_FOUND
    ELSE LET location == d.rows[CHOOSE k \in 1..Len(d.rows) : d.rows[k].SKU = sku].Location
         IN  IF location = NaN THEN S_nan ELSE location

\* location = df.loc[extracted_sku, 'Location'] and the sentinels; the table
\* holds each SKU cell once, and a Location cell is NaN or a string
location_to_stamp(sku, d) ==
    IF ~d.indexed \/ \A k \in 1..Len(d.rows) : d.rows[k].SKU /= sku
    THEN S_SKU_NOT_FOUND                                  \* except KeyError
    ELSE LET location == d.rows[CHOOSE k \in 1..Len(d.rows) : d.rows[k].SKU = sku].Location
         IN  IF location = NaN \/ location = <<>> THEN S_LOCATION_NOT_DEFINED ELSE location

\* the order of the calls, had the items been extracted before the sort
StepAfter_ExtractFirst(step) ==
    CASE step = "load"    -> "extract"
      [] step = "extract" -> "sort"
      [] step = "sort"    -> "mark"
      [] step = "mark"    -> "stamp"
      [] step = "stamp"   -> "summary"
      [] step = "summary" -> "done"

\* the order of the calls in main() and _process_packing_slips
StepAfter(step) ==
    CASE step = "load"    -> "sort"
      [] step = "sort"    -> "mark"
      [] step = "mark"    -> "extract"
      [] step = "extract" -> "stamp"
      [] step = "stamp"   -> "summary"
      [] step = "summary" -> "done"

\* the page_metadata sort_pdf_pages builds for the pages
SlipMeta(pages) ==
    [k \in 1..Len(pages) |->
        [index |-> k, order_num |-> order_num(pages[k].text), seq_num |-> seq_num(pages[k].text)]]

\* the file after a successful mark_preorders
MarkedPages(pages) ==
    [k \in 1..Len(pages) |->
        [pages[k] EXCEPT !.strikes = @ \o StrikesFor(pages[k], PageMatches(pages[k].text))]]

\* page.get_text("text") of a stamped page: the inserted text follows the page's own
Visible(pages) ==
    [k \in 1..Len(pages) |->
        [id |-> pages[k].id,
         text |-> pages[k].text \o [j \in 1..Len(pages[k].stamps) |-> pages[k].stamps[j].text]]]

\* an entry of the history of steps
Step(name, item, called, wrote, after) ==
    [name |-> name, item |-> item, called |-> called, wrote |-> wrote,
     ids |-> [k \in 1..Len(after) |-> after[k].id]]

PSlipA == <<L_Order200, L_WidgetA, L_SizeL, L_SKU12345, L_1of1>>
PSlipB == <<L_Order100, S_Shirt, S_SizeM, S_ABC1234, L_1of1>>
PSlipC == <<L_Order100, L_PreOrder, L_Blue, L_SizeL, L_2of2>>
\* an item block cut by the page break: its sequence marker is on the next page
PSlipD == <<L_Order200, L_WidgetA, L_SizeL, L_SKU12345>>
PSlipE == <<L_Order100, L_Blue>>
\* two item blocks on one page
PSlipF == <<L_Order100, S_Shirt, S_SizeM, S_ABC1234, L_1of1, L_WidgetA, L_SizeL, L_SKU12345, L_2of2>>
MainDocs ==
    {MarkDoc(<<PSlipA, PSlipB>>, <<TRUE, TRUE>>),
     MarkDoc(<<PSlipB, PSlipC, PSlipA>>, <<TRUE, TRUE, TRUE>>),
     MarkDoc(<<PSlipA, PSlipC>>, <<TRUE, FALSE>>),
     MarkDoc(<<PSlipD>>, <<TRUE>>),
     MarkDoc(<<PSlipD, PSlipB>>, <<TRUE, TRUE>>),
     MarkDoc(<<PSlipE>>, <<TRUE>>),
     MarkDoc(<<PSlipB, PSlipA>>, <<FALSE, TRUE>>),
     MarkDoc(<<PSlipA, PSlipF>>, <<TRUE, TRUE>>)}
MainDatabases ==
    DatabasePool \cup
    {Table(<<[SKU |-> S_ABC1234, Location |-> S_A1], [SKU |-> L_SKU12345, Location |-> S_B2pad],
             [SKU |-> S_00000, Location |-> S_A1]>>)}

InitMain ==
    /\ pc = "load" /\ mode \in {"main", "gui"}
    /\ \E d \in MainDocs : FreshCall(d)
    /\ database \in MainDatabases
    /\ page_metadata = <<>> /\ page_num = 0 /\ items = <<>> /\ emitted = <<>>
    /\ location_db = <<>> /\ counts = <<>> /\ summary_lines = <<>> /\ args = NoneVal
    /\ IdleMark /\ IdleMain /\ IdleEditor

\* main.py: the database checks that end in sys.exit(1), and the load
MainLoad ==
    /\ pc = "load" /\ mode = "main"
    /\ IF ~database.exists
       THEN result' = S_ExitNotFound /\ pc' = "done" /\ df' = df
       ELSE IF ~database.readable \/ ~database.sku_column
       THEN result' = S_ExitCsv /\ pc' = "done" /\ df' = df
       ELSE result' = result /\ pc' = StepAfter("load") /\ df' = MainDf(database)
    /\ UNCHANGED <<mode, pdf, pdf0, tmp, temp_file, temps, doc, sortVars, exVars, aggVars, args, database, markVars,
                   items_to_process, item_index, stamps_successful, steps, editorVars>>

\* gui.py: load_database() of the constructor, and "if self.df is None: return"
GuiLoad ==
    /\ pc = "load" /\ mode = "gui"
    /\ df' = GuiDf(database)
    /\ IF ~df'.loaded
       THEN result' = S_NotLoaded /\ pc' = "done"
       ELSE result' = result /\ pc' = StepAfter("load")
    /\ UNCHANGED <<mode, pdf, pdf0, tmp, temp_file, temps, doc, sortVars, exVars, aggVars, args, database, markVars,
                   items_to_process, item_index, stamps_successful, steps, editorVars>>

\* sort_pdf_pages(pdf_path): the file is replaced when the order changes, and
\* left alone when the pages are in order or a step of the sorter fails
MainSort ==
    /\ pc = "sort" /\ mode \in {"main", "gui"}
    /\ LET idxs == sorted_indices(SlipMeta(pdf.pages))
       IN  \/ pdf' = IF idxs = [k \in 1..Len(idxs) |-> k] THEN pdf
                     ELSE [pages |-> Select(pdf.pages, idxs), rev |-> pdf.rev + 1]
           \/ pdf' = pdf
    /\ steps' = Append(steps, Step("sort", 0, TRUE, pdf' /= pdf, pdf'.pages))
    /\ pc' = StepAfter("sort")
    /\ UNCHANGED <<mode, pdf0, tmp, temp_file, temps, doc, result, sortVars, exVars, aggVars, args, database, markVars,
                   df, items_to_process, item_index, stamps_successful, editorVars>>

\* mark_preorders(pdf_path)
MainMark ==
    /\ pc = "mark" /\ mode \in {"main", "gui"}
    /\ \/ pdf' = IF MarkedPages(pdf.pages) = pdf.pages THEN pdf
                 ELSE [pages |-> MarkedPages(pdf.pages), rev |-> pdf.rev + 1]
       \/ pdf' = pdf
    /\ steps' = Append(steps, Step("mark", 0, TRUE, pdf' /= pdf, pdf'.pages))
    /\ pc' = StepAfter("mark")
    /\ UNCHANGED <<mode, pdf0, tmp, temp_file, temps, doc, result, sortVars, exVars, aggVars, args, database, markVars,
                   df, items_to_process, item_index, stamps_successful, editorVars>>

\* items_to_process = extract_all_items(pdf_path); if not items_to_process: return
MainExtract ==
    /\ pc = "extract" /\ mode \in {"main", "gui"}
    /\ \/ items_to_process' = AllItems(pdf.pages, Len(pdf.pages))
       \/ items_to_process' = <<>>               \* the extractor's except branch
    /\ steps' = Append(steps, Step("extract", 0, TRUE, FALSE, pdf.pages))
    /\ IF items_to_process' = <<>>
       THEN pc' = "done" /\ result' = S_NoSize
       ELSE pc' = StepAfter("extract") /\ result' = result
    /\ UNCHANGED <<mode, pdf, pdf0, tmp, temp_file, temps, doc, sortVars, exVars, aggVars, args, database, markVars,
                   df, item_index, stamps_successful, editorVars>>

\* one iteration of: for i, item in enumerate(items_to_process)
MainStamp ==
    /\ pc = "stamp" /\ mode \in {"main", "gui"}
    /\ item_index < Len(items_to_process)
    /\ LET item == items_to_process[item_index + 1]
           loc  == location_to_stamp(item.sku, df)
       IN  IF loc \in {S_SKU_NOT_FOUND, S_LOCATION_NOT_DEFINED} \/ item.rect = NoRect
           THEN /\ pdf' = pdf /\ stamps_successful' = stamps_successful
                /\ steps' = Append(steps, Step("stamp", item_index + 1, FALSE, FALSE, pdf.pages))
           ELSE \* write_location_to_pdf(pdf_path, location_to_stamp, sku_rect, page_index)
                /\ \/ /\ item.page_index <= Len(pdf.pages)
                      /\ pdf' = [pages |-> Stamped(pdf.pages,
                                              [location_text |-> loc, sku_rect |-> item.rect,
                                               page_index |-> item.page_index]),
                                 rev |-> pdf.rev + 1]
                      /\ stamps_successful' = stamps_successful + 1
                   \/ pdf' = pdf /\ stamps_successful' = stamps_successful
                /\ steps' = Append(steps, Step("stamp", item_index + 1, TRUE, pdf' /= pdf, pdf'.pages))
    /\ item_index' = item_index + 1
    /\ UNCHANGED <<pc, mode, pdf0, tmp, temp_file, temps, doc, result, sortVars, exVars, aggVars, args, database, markVars,
                   df, items_to_process, editorVars>>

\* the loop has ended: the totals are printed
MainLoopEnd ==
    /\ pc = "stamp" /\ mode \in {"main", "gui"}
    /\ item_index = Len(items_to_process)
    /\ pc' = StepAfter("stamp")
    /\ UNCHANGED <<mode, fsVars, sortVars, exVars, aggVars, args, database, markVars, mainVars, editorVars>>

\* process_pdf(pdf_path) inside try / except Exception
MainSummary ==
    /\ pc = "summary" /\ mode \in {"main", "gui"}
    /\ location_db' = load_database(database)
    /\ \/ items' = ExtractPages(Visible(pdf.pages), Len(pdf.pages))
       \/ items' = <<>>                          \* the extractor's except branch
    /\ IF items' = <<>>
       THEN /\ result' = S_NoItems
            /\ UNCHANGED <<pdf, tmp, summary_lines>>
       ELSE /\ summary_lines' = aggregate_items(items', location_db')
            /\ \/ /\ pdf' = [pages |-> create_summary_page(summary_lines') \o pdf.pages,
                             rev |-> pdf.rev + 1]
                  /\ tmp' = tmp /\ result' = S_Updated
               \/ pdf' = pdf /\ tmp' = tmp /\ result' = S_ErrOpen
               \/ pdf' = pdf /\ tmp' = tmp /\ result' = S_ErrSave
               \/ /\ pdf' = pdf /\ result' = S_ErrSave
                  /\ tmp' = [state |-> "partial", pages |-> <<>>]
               \/ /\ pdf' = pdf /\ result' = S_ErrReplace
                  /\ tmp' = [state |-> "complete",
                             pages |-> create_summary_page(summary_lines') \o pdf.pages]
    /\ steps' = Append(steps, Step("summary", 0, TRUE, pdf' /= pdf, pdf'.pages))
    /\ pc' = StepAfter("summary")
    /\ UNCHANGED <<mode, pdf0, temp_file, temps, doc, sortVars, page_num, emitted, counts, args, database, markVars,
                   df, items_to_process, item_index, stamps_successful, editorVars>>

NextMain ==
    \/ MainLoad \/ GuiLoad \/ MainSort \/ MainMark \/ MainExtract
    \/ MainStamp \/ MainLoopEnd \/ MainSummary

SpecMain == InitMain /\ [][NextMain]_vars

-----------------------------------------------------------------------------
(* Properties of a packing-slip run.                                       *)

\* the pages of the file that are not summary pages, in file order
IsSlipPage(p) == p.id /= 0
SlipPages == SelectSeq(pdf.pages, IsSlipPage)

PageWithId(pages, pid) == pages[CHOOSE k \in 1..Len(pages) : pages[k].id = pid]

\* C13: the steps of a run are sort, pre-order mark, extract, one stamp step
\* per item, summary, in this order; the summary comes after the last item of
\* the stamp loop; and each stamp is written at page_index of the page order
\* the sort left, on the page where the item's SKU was located.
RunInOrder ==
    mode \in {"main", "gui"} =>
        /\ Len(steps) <= 4 + Len(items_to_process)
        /\ \A k \in 1..Len(steps) :
              steps[k].name =
                  (IF k = 1 THEN "sort" ELSE IF k = 2 THEN "mark" ELSE IF k = 3 THEN "extract"
                   ELSE IF k <= 3 + Len(items_to_process) THEN "stamp" ELSE "summary")
        /\ \A k \in 1..Len(steps) :
              (steps[k].name = "stamp" /\ steps[k].wrote) =>
                  LET item == items_to_process[steps[k].item]
                      pid  == steps[1].ids[item.page_index]
                  IN  /\ steps[k].ids = steps[1].ids
                      /\ search_for(PageWithId(pdf0.pages, pid), item.sku) /= <<>>
                      /\ search_for(PageWithId(pdf0.pages, pid), item.sku)[1] = item.rect
                      /\ \E j \in 1..Len(PageWithId(pdf.pages, pid).stamps) :
                            LET st == PageWithId(pdf.pages, pid).stamps[j]
                            IN  /\ st.x = item.rect.x0 /\ st.y = item.rect.y1 + OFFSET_Y
                                /\ StartsAt(st.text, 1, S_LOCATION)

RunSortedThenStamped ==
    /\ mode \in {"main", "gui"} /\ pc = "done" /\ result = S_Updated
    /\ steps[1].name = "sort" /\ steps[1].wrote
    /\ \E k \in 1..Len(steps) : steps[k].name = "stamp" /\ steps[k].wrote
    /\ steps[Len(steps)].name = "summary" /\ Len(steps) = 4 + Len(items_to_process)

\* C14: when the database file is missing or cannot be loaded, the run of
\* main, of the GUI or of process_pdf changes nothing on disk: no step of the
\* run is taken, the PDF is as it was and no temporary file is left.
DbFailureAbortsRun ==
    (mode \in {"main", "gui", "summary"}
        /\ ~(database.exists /\ database.readable /\ database.sku_column)) =>
        /\ pdf = pdf0 /\ tmp = NoTmp /\ steps = <<>>

\* the table has no location to stamp for sku: no row with exactly this SKU
\* cell, or a row whose Location cell is empty or not a value
LookupMiss(sku) ==
    \/ ~database.sku_column
    \/ \A k \in 1..Len(database.rows) : database.rows[k].SKU /= sku
    \/ \E k \in 1..Len(database.rows) :
          database.rows[k].SKU = sku /\ database.rows[k].Location \in {NaN, <<>>}

\* for each record extract_all_items returns, the page and line of its 'Size:'
RECURSIVE SourcesOfPage(_, _, _, _)
SourcesOfPage(page, pg, hits, n) ==
    IF n = 0 THEN <<>>
    ELSE SourcesOfPage(page, pg, hits, n - 1) \o
         (IF ItemFor(page, pg, hits[n][1], hits[n][2]) /= <<>>
          THEN <<[page |-> pg, line |-> hits[n][1]]>> ELSE <<>>)

RECURSIVE SourcesOf(_, _)
SourcesOf(pages, n) ==
    IF n = 0 THEN <<>>
    ELSE SourcesOf(pages, n - 1) \o
         SourcesOfPage(pages[n], n, SizeHits(pages[n].text, 1), Len(SizeHits(pages[n].text, 1)))

\* the sequence-marker lines whose block has the i-th item's 'Size:' line as
\* its size line and a name: the records of the summary that stand for the item
BlocksOf(i) ==
    LET src == SourcesOf(SlipPages, Len(SlipPages))[i]
        ls  == Visible(SlipPages)[src.page].text
    IN  {m \in 1..Len(ls) :
            /\ IsSeqMarker(ls[m]) /\ HasSizeLine(ls, m) /\ SizeCursor(ls, m) = src.line
            /\ name_lines(ls, m) /= <<>>}

\* a summary page of the file lists the i-th item's block with its count
Reported(i) ==
    LET src == SourcesOf(SlipPages, Len(SlipPages))[i]
        ls  == Visible(SlipPages)[src.page].text
        all == ExtractPages(Visible(SlipPages), Len(SlipPages))
    IN  \E m \in BlocksOf(i) :
            \E k \in 1..Len(pdf.pages) :
                /\ pdf.pages[k].id = 0
                /\ \E j \in 1..Len(pdf.pages[k].text) :
                      pdf.pages[k].text[j] =
                          FormatLine(ItemAt(ls, m), Occurs(all, ItemAt(ls, m)), load_database(database))

\* the stamp loop leaves an item without a location alone and goes on
SkippedAndLoopGoesOn(i) ==
    /\ steps[3 + i].name = "stamp" /\ steps[3 + i].item = i
    /\ ~steps[3 + i].called /\ ~steps[3 + i].wrote
    /\ steps[3 + i].ids = steps[2 + i].ids
    /\ pc \in {"summary", "done"} => item_index = Len(items_to_process)

\* C15 as stated: an item whose SKU is not in the table, or whose location is
\* empty or not a value, is never passed to write_location_to_pdf, the loop
\* goes on to the remaining items, and the summary page written at the end
\* of the run counts and reports the item.
SkippedItemStillReported ==
    mode \in {"main", "gui"} =>
        \A i \in 1..item_index :
            LookupMiss(items_to_process[i].sku) =>
                /\ SkippedAndLoopGoesOn(i)
                /\ (pc = "done" /\ result = S_Updated) => Reported(i)

\* C15, amended: as stated, the summary page reporting the item when the
\* item's 'Size:' line belongs to a block that extract_items_from_pdf finds:
\* a name line before it and, after it and an optional SKU line, a sequence
\* marker on the same page.
SkippedItemReportedWhenBlockSeen ==
    mode \in {"main", "gui"} =>
        \A i \in 1..item_index :
            LookupMiss(items_to_process[i].sku) =>
                /\ SkippedAndLoopGoesOn(i)
                /\ (pc = "done" /\ result = S_Updated /\ BlocksOf(i) /= {}) => Reported(i)

UnknownSkuSkippedAndReported ==
    /\ mode \in {"main", "gui"} /\ pc = "done" /\ result = S_Updated
    /\ Len(items_to_process) = 2 /\ stamps_successful = 1
    /\ \E i \in 1..2 :
          /\ items_to_process[i].sku = L_SKU12345 /\ items_to_process[i].rect /= NoRect
          /\ LookupMiss(L_SKU12345) /\ ~steps[3 + i].called
          /\ BlocksOf(i) /= {} /\ Reported(i)

\* C19: the stamping lookup of main / the GUI and the lookup of
\* aggregate_items agree, for every SKU of the run, on whether the table has
\* the SKU and on its location.
LookupsAgree ==
    (mode \in {"main", "gui"} /\ df.loaded) =>
        \A i \in 1..Len(items_to_process) :
            LET sku == items_to_process[i].sku
                a   == location_to_stamp(sku, df)
                db  == load_database(database)
            IN  /\ a = S_SKU_NOT_FOUND <=> sku \notin DOMAIN db
                /\ a = S_LOCATION_NOT_DEFINED => Location(sku, db) = S_NoLocation
                /\ a \notin {S_SKU_NOT_FOUND, S_LOCATION_NOT_DEFINED} => Location(sku, db) = a

\* the Location cell of the row of sku, as the stamp loop reads it
CellOf(sku) == database.rows[CHOOSE k \in 1..Len(database.rows) : database.rows[k].SKU = sku].Location

\* the stamps of the first n items that write_location_to_pdf reported as
\* written on the page with this id, in the order of the loop
RECURSIVE StampsOf(_, _)
StampsOf(pid, n) ==
    IF n = 0 THEN <<>>
    ELSE StampsOf(pid, n - 1) \o
         (IF steps[3 + n].wrote /\ steps[2 + n].ids[items_to_process[n].page_index] = pid
          THEN <<[x    |-> items_to_process[n].rect.x0,
                  y    |-> items_to_process[n].rect.y1 + OFFSET_Y,
                  text |-> S_LOCATION \o CellOf(items_to_process[n].sku)]>>
          ELSE <<>>)

\* C21: during and after the stamp loop every page of the file carries the
\* stamps of exactly the items for which write_location_to_pdf returned True
\* so far, in the order they were written; stamps_successful is their number;
\* a failed stamp changes nothing and the loop goes on to the last item.
StampsAccumulate ==
    (mode \in {"main", "gui"} /\ pc \in {"stamp", "summary", "done"} /\ Len(steps) >= 3 + item_index) =>
        /\ \A k \in 1..Len(pdf.pages) :
              pdf.pages[k].id /= 0 => pdf.pages[k].stamps = StampsOf(pdf.pages[k].id, item_index)
        /\ stamps_successful = Cardinality({i \in 1..item_index : steps[3 + i].wrote})
        /\ \A i \in 1..item_index :
              (steps[3 + i].called /\ ~steps[3 + i].wrote) => steps[3 + i].ids = steps[2 + i].ids
        /\ pc \in {"summary", "done"} /\ items_to_process /= <<>> => item_index = Len(items_to_process)

\* of three items the second fails to be written: the first stamp stays in
\* the file and the third is written
LaterStampAfterFailedOne ==
    /\ mode \in {"main", "gui"} /\ pc = "done" /\ Len(items_to_process) = 3
    /\ Len(steps) >= 6
    /\ steps[4].wrote
    /\ steps[5].called /\ ~steps[5].wrote
    /\ steps[6].wrote
    /\ stamps_successful = 2
    /\ \A k \in 1..Len(pdf.pages) :
          pdf.pages[k].id /= 0 => Len(pdf.pages[k].stamps) = 1

-----------------------------------------------------------------------------
(* database_editor.DatabaseEditorApp: the table editor.                    *)
(* Source: src/database_editor.py lines 9-156.                              *)

\* fillna(""): a cell that is not a value reads as the empty string
FillNa(cell) == IF cell = NaN THEN <<>> ELSE cell

\* read_csv(dtype=str), the Description column added when the file has
\* none, fillna("")
EditorRows(db) ==
    [k \in 1..Len(db.rows) |->
        [SKU         |-> FillNa(db.rows[k].SKU),
         Location    |-> FillNa(db.rows[k].Location),
         Description |-> IF "Description" \in DOMAIN db.rows[k]
                         THEN FillNa(db.rows[k].Description) ELSE <<>>]]

\* sku in self.df["SKU"].values
SkuInTable(rows, sku) == \E k \in 1..Len(rows) : rows[k].SKU = sku

\* save_entry: the rows after the update of the rows with this SKU, or after
\* the append of a new row
SavedRows_AlwaysAppend(rows, sku, location, description) ==
    Append(rows, [SKU |-> sku, Location |-> location, Description |-> description])

SavedRows(rows, sku, location, description) ==
    IF SkuInTable(rows, sku)
    THEN [k \in 1..Len(rows) |->
            IF rows[k].SKU = sku
            THEN [rows[k] EXCEPT !.Location = location, !.Description = description]
            ELSE rows[k]]
    ELSE Append(rows, [SKU |-> sku, Location |-> location, Description |-> description])

\* self.df[self.df["SKU"] != sku]
RECURSIVE DeletedRows(_, _)
DeletedRows(rows, sku) ==
    IF rows = <<>> THEN <<>>
    ELSE (IF Head(rows).SKU /= sku THEN <<Head(rows)>> ELSE <<>>) \o DeletedRows(Tail(rows), sku)

\* what the user types into the three fields: SKUs of the table and new
\* ones, padded and not, an empty SKU and one of spaces only
EntryTexts ==
    {[sku |-> S_ABC1234pad, location |-> S_B2pad, description |-> S_Shirt],
     [sku |-> S_ABC1234,    location |-> S_A1,    description |-> <<>>],
     [sku |-> L_SKU12345,   location |-> S_A1,    description |-> S_Shirt],
     [sku |-> L_SKU12345,   location |-> <<>>,    description |-> <<>>],
     [sku |-> <<>>,         location |-> S_A1,    description |-> <<>>],
     [sku |-> <<" ", " ">>, location |-> S_B2pad, description |-> S_Shirt]}

\* the files the editor starts on: none, one read_csv cannot read, tables
\* with a SKU column and unique SKUs
EditorDatabases ==
    {NoDatabase,
     [exists |-> TRUE, readable |-> FALSE, sku_column |-> FALSE, rows |-> <<>>],
     Table(<<[SKU |-> S_ABC1234, Location |-> S_A1]>>),
     Table(<<[SKU |-> S_ABC1234pad, Location |-> S_B2pad], [SKU |-> L_SKU12345, Location |-> NaN]>>),
     Table(<<[SKU |-> L_SKU12345, Location |-> S_A1, Description |-> S_Shirt],
             [SKU |-> S_ABC1234, Location |-> NaN, Description |-> NaN]>>)}

\* __init__: an empty frame, empty fields
InitEditor ==
    /\ pc = "init" /\ mode = "editor"
    /\ database \in EditorDatabases
    /\ editor_df = <<>> /\ entry = NoEntry /\ editor_call = NoCall
    /\ pdf = NoDoc /\ pdf0 = NoDoc /\ tmp = NoTmp /\ temp_file = NoneVal /\ temps = 0
    /\ doc = NoDoc /\ result = "none"
    /\ page_metadata = <<>> /\ page_num = 0 /\ items = <<>> /\ emitted = <<>>
    /\ location_db = <<>> /\ counts = <<>> /\ summary_lines = <<>> /\ args = NoneVal
    /\ IdleMark /\ IdleMain

\* load_database, called from __init__: the rows of the file; an empty table
\* written to a new file when there is none; the empty frame kept when the
\* read fails
EditorLoadDatabase ==
    /\ mode = "editor" /\ pc = "init"
    /\ \/ /\ database.exists /\ database.readable
          /\ editor_df' = EditorRows(database)
          /\ UNCHANGED database
       \/ /\ database.exists /\ ~database.readable
          /\ UNCHANGED <<editor_df, database>>
       \/ /\ ~database.exists
          /\ editor_df' = <<>>
          /\ \E ok \in BOOLEAN : database' = IF ok THEN Table(<<>>) ELSE database
    /\ pc' = "mainloop"
    /\ UNCHANGED <<mode, fsVars, sortVars, exVars, aggVars, args, markVars, mainVars, entry, editor_call>>

\* the user types into the fields
EditorInput ==
    /\ mode = "editor" /\ pc = "mainloop"
    /\ \E e \in EntryTexts : entry' = e /\ e /= entry
    /\ UNCHANGED <<pc, mode, fsVars, sortVars, exVars, aggVars, args, database, markVars, mainVars,
                   editor_df, editor_call>>

\* save_entry, with save_database (which reports a failed write and goes on)
\* and clear_inputs
save_entry ==
    /\ mode = "editor" /\ pc = "mainloop"
    /\ editor_call' = [op |-> "save_entry", entry |-> entry, confirm |-> FALSE, before |-> editor_df]
    /\ LET sku         == strip(entry.sku)
           location    == strip(entry.location)
           description == strip(entry.description)
       IN  IF sku = <<>>
           THEN UNCHANGED <<editor_df, database, entry>>
           ELSE /\ editor_df' = SavedRows(editor_df, sku, location, description)
                /\ \E ok \in BOOLEAN : database' = IF ok THEN Table(editor_df') ELSE database
                /\ entry' = NoEntry
    /\ UNCHANGED <<pc, mode, fsVars, sortVars, exVars, aggVars, args, markVars, mainVars>>

\* delete_entry, with the answer to the confirmation dialog
delete_entry ==
    /\ mode = "editor" /\ pc = "mainloop"
    /\ \E confirm \in BOOLEAN :
          LET sku == strip(entry.sku)
          IN  /\ editor_call' = [op |-> "delete_entry", entry |-> entry,
                                 confirm |-> confirm /\ sku /= <<>> /\ SkuInTable(editor_df, sku),
                                 before |-> editor_df]
              /\ IF sku /= <<>> /\ SkuInTable(editor_df, sku) /\ confirm
                 THEN /\ editor_df' = DeletedRows(editor_df, sku)
                      /\ \E ok \in BOOLEAN : database' = IF ok THEN Table(editor_df') ELSE database
                      /\ entry' = NoEntry
                 ELSE UNCHANGED <<editor_df, database, entry>>
    /\ UNCHANGED <<pc, mode, fsVars, sortVars, exVars, aggVars, args, markVars, mainVars>>

NextEditor ==
    \/ EditorLoadDatabase
    \/ EditorInput
    \/ save_entry
    \/ delete_entry

SpecEditor == InitEditor /\ [][NextEditor]_vars

-----------------------------------------------------------------------------
(* Properties of the table editor.                                         *)

\* the number of rows whose SKU cell is sku
RECURSIVE RowsWith(_, _)
RowsWith(rows, sku) ==
    IF rows = <<>> THEN 0
    ELSE (IF Head(rows).SKU = sku THEN 1 ELSE 0) + RowsWith(Tail(rows), sku)

\* rows is sub with the rows at some positions left out, order kept
RECURSIVE IsSubsequence(_, _)
IsSubsequence(sub, rows) ==
    IF sub = <<>> THEN TRUE
    ELSE IF rows = <<>> THEN FALSE
    ELSE IF Head(sub) = Head(rows) THEN IsSubsequence(Tail(sub), Tail(rows))
    ELSE IsSubsequence(sub, Tail(rows))

-----------------------------------------------------------------------------
(* create_summary_page (aggregator.py) on its own, for every number of     *)
(* summary lines up to MaxSummaryLines.                                    *)

\* summary_lines given to create_summary_page: n times the same line
SummaryInputs ==
    {[k \in 1..n |-> l] : n \in 0..MaxSummaryLines, l \in {S_Shirt, L_WidgetA}}

InitPages ==
    /\ pc = "call" /\ mode = "pages"
    /\ summary_lines \in SummaryInputs
    /\ pdf = NoDoc /\ pdf0 = NoDoc /\ tmp = NoTmp /\ temp_file = NoneVal /\ temps = 0
    /\ doc = NoDoc /\ result = "none"
    /\ page_metadata = <<>> /\ page_num = 0 /\ items = <<>> /\ emitted = <<>>
    /\ location_db = <<>> /\ counts = <<>> /\ args = NoneVal /\ database = NoDatabase
    /\ IdleMark /\ IdleMain /\ IdleEditor

\* doc = create_summary_page(summary_lines)
PagesCreate ==
    /\ pc = "call" /\ mode = "pages"
    /\ doc' = create_summary_page(summary_lines)
    /\ pc' = "done"
    /\ UNCHANGED <<mode, pdf, pdf0, tmp, temp_file, temps, result, sortVars, exVars, aggVars, args,
                   database, markVars, mainVars, editorVars>>

NextPages == PagesCreate

SpecPages == InitPages /\ [][NextPages]_vars

\* the offsets of the summary lines of page k: all but the title's on page 1
LineOffsets(pages, k) == IF k = 1 THEN Tail(pages[k].ys) ELSE pages[k].ys

\* C22: create_summary_page places every line at an offset of at most 800,
\* the lines of a page are 15 apart, and every page after the first holds at
\* least one summary line: there is no trailing empty page.
SummaryPagesFilled ==
    (mode = "pages" /\ pc = "done") =>
        \A k \in 1..Len(doc) :
            LET ys == LineOffsets(doc, k)
            IN  /\ \A j \in 1..Len(ys) : ys[j] <= 800
                /\ \A j \in 1..(Len(ys) - 1) : ys[j + 1] = ys[j] + 15
                /\ k > 1 => ys /= <<>>

-----------------------------------------------------------------------------
(* extract_items_from_pdf on item blocks without a SKU line.               *)

\* the name lines of the blocks: with and without a line of 5 to 15 letters
\* and digits as the last one
NoSkuNames == {<<L_WidgetA>>, <<L_Blue, L_WidgetA>>, <<S_Shirt>>, <<L_Blue, S_Shirt>>}

\* a page that ends in a block of name lines, an optional 'Size:' line and
\* the marker, after a boundary line or at the start of the page
InitNoSku ==
    /\ pc = "open" /\ mode = "extract"
    /\ \E n \in 0..MaxPrefix : \E pre \in [1..n -> ExtractorLines] :
           \E names \in NoSkuNames : \E size \in {<<>>, <<L_SizeL>>} :
               \E marker \in {L_1of1, L_Marker23} :
                   FreshCall(MakeDoc(<<pre \o names \o size \o <<marker>> >>))
    /\ Idle

SpecNoSku == InitNoSku /\ [][NextExtract]_vars

\* 5 to 15 letters and digits
SkuShaped(s) ==
    /\ Len(s) >= 5 /\ Len(s) <= 15
    /\ \A k \in 1..Len(s) : s[k] \in {Digits[d] : d \in 1..10} \cup Upper \cup Lower

\* a line that can be a name line of a block: not a boundary, not a size line
IsNameLine(l) == ~IsBoundaryLine(l) /\ ~StartsAt(strip(l), 1, S_Size)

\* the blocks without a SKU line that end at the marker on line k: n name
\* lines after a boundary line or the start of the page, then the size line
\* if there is one, then the marker
NoSkuBlocks(ls, k) ==
    {b \in [n : {1, 2}, sized : BOOLEAN] :
        LET last  == IF b.sized THEN k - 2 ELSE k - 1
            first == last - b.n + 1
        IN  /\ first >= 1
            /\ b.sized => StartsAt(strip(ls[k - 1]), 1, S_Size)
            /\ \A c \in first..last : IsNameLine(ls[c])
            /\ first = 1 \/ IsBoundaryLine(ls[first - 1])}

BlockLast(b, k) == IF b.sized THEN k - 2 ELSE k - 1

\* the record the block stands for: the sentinel SKU, the name lines joined
NoSkuRecord(ls, k, b) ==
    [name |-> IF b.n = 1 THEN strip(ls[BlockLast(b, k)])
              ELSE strip(ls[BlockLast(b, k) - 1]) \o <<" ">> \o strip(ls[BlockLast(b, k)]),
     sku  |-> S_NO_SKU,
     size |-> IF b.sized THEN strip(ls[k - 1]) ELSE <<>>]

\* C24 as stated: every block without a SKU line gives, whatever its name
\* lines read, one record with the sentinel 'NO SKU' and the name of the
\* block's name lines.
NoSkuBlockGivesSentinel ==
    mode = "extract" =>
        \A pg \in 1..page_num : \A k \in 1..Len(doc[pg].text) :
            IsSeqMarker(doc[pg].text[k]) =>
                \A b \in NoSkuBlocks(doc[pg].text, k) :
                    /\ Cardinality(RecordsAt(pg, k)) = 1
                    /\ \A n \in RecordsAt(pg, k) : items[n] = NoSkuRecord(doc[pg].text, k, b)

\* C24, amended: the same for the blocks that have a 'Size:' line or whose
\* last name line is not 5 to 15 letters and digits.
NoSkuBlockGivesSentinelUnlessSkuShaped ==
    mode = "extract" =>
        \A pg \in 1..page_num : \A k \in 1..Len(doc[pg].text) :
            IsSeqMarker(doc[pg].text[k]) =>
                \A b \in NoSkuBlocks(doc[pg].text, k) :
                    (b.sized \/ ~SkuShaped(strip(doc[pg].text[BlockLast(b, k)]))) =>
                        /\ Cardinality(RecordsAt(pg, k)) = 1
                        /\ \A n \in RecordsAt(pg, k) : items[n] = NoSkuRecord(doc[pg].text, k, b)

SkuShapedNameKeptWithSize ==
    /\ Parsed
    /\ doc[1].text = <<L_ITEMS, L_Blue, S_Shirt, L_SizeL, L_1of1>>
    /\ [n |-> 2, sized |-> TRUE] \in NoSkuBlocks(doc[1].text, 5)
    /\ items = <<[name |-> L_Blue \o <<" ">> \o S_Shirt, sku |-> S_NO_SKU, size |-> L_SizeL]>>

====
